---- MODULE Spec2Model ----
(***************************************************************************)
(* Request-lifecycle engine of The Librarian (AnimusUNO/librarian).        *)
(*                                                                         *)
(* Three specifications share this module:                                 *)
(*   SpecLM    - LoadManager (src/librarian/load_manager.py) together with *)
(*               the inline admission of the streaming path                *)
(*               (main.py, handle_streaming_response_with_queue).          *)
(*   SpecLease - AgentConfigManager.temporary_config                       *)
(*               (src/librarian/agent_config_manager.py).                  *)
(*   SpecReq   - the request handlers of main.py                           *)
(*               (handle_non_streaming_response, _generate_stream_chunks)  *)
(*               with configure_agent_for_request / restore_agent_config.  *)
(*                                                                         *)
(* The program runs on one asyncio event loop: the code between two        *)
(* suspension points runs without interleaving.  asyncio.Lock.acquire and  *)
(* asyncio.Semaphore.acquire do not suspend when the primitive is free, so *)
(* an action below is the code from one real suspension (a contended       *)
(* acquire, an upstream RPC, a stream element, a yield) to the next.       *)
(***************************************************************************)
EXTENDS Integers, Sequences, FiniteSets, TLC

VARIABLES
    \* ---- LoadManager ----
    now,              \* time.time() in milliseconds
    request_queue,    \* LoadManager.request_queue: list of RequestItem (named by owner)
    active_requests,  \* LoadManager.active_requests: request_id -> RequestItem
    agent_clones,     \* LoadManager.agent_clones: agent_id -> list of clone ids
    sem_value,        \* processing_semaphore._value
    sem_waiters,      \* processing_semaphore._waiters (FIFO of callers)
    sem_woken,        \* waiters whose future has been completed by a release
    rid,              \* request_id held by caller p (and of the RequestItem p created)
    item_agent,       \* RequestItem.agent_id
    status,           \* RequestItem.status
    request_item,     \* local variable request_item of the caller's admission
    lm_pc,            \* position of caller p
    kind,             \* which entry point caller p uses
    result,           \* what the caller of process_request observes
    work_raised,      \* history: the exception the processor of caller p raised
    \* ---- upstream agent runtime ----
    agent_cfg,        \* llm_config of each agent as stored upstream
    \* ---- AgentConfigManager / AgentConfigContext ----
    agent_locks,      \* AgentConfigManager.agent_locks: agent_id -> lock
    lock_locked,      \* asyncio.Lock._locked of each created lock
    lock_waiters,     \* asyncio.Lock._waiters of each created lock
    lock_woken,       \* waiters whose future a release has completed
    ctx_pc,           \* position of context c
    ctx_agent,        \* AgentConfigContext.agent_id
    ctx_temperature,  \* AgentConfigContext.temperature
    ctx_max_tokens,   \* AgentConfigContext.max_tokens
    original_config,  \* AgentConfigContext.original_config
    lock_acquired,    \* AgentConfigContext._lock_acquired
    ctx_exc,          \* exception leaving the async-with block of context c
    n_retrieve,       \* history: agents.retrieve calls made by context c
    n_modify,         \* history: agents.modify calls made by context c
    modify_failed,    \* history: some agents.modify call on the agent raised
    call_raised,      \* history: the upstream call of context c that raised
    \* ---- request handlers of main.py ----
    req,              \* per request: the handler's arguments, locals and output
    \* ---- library components main.py does not call ----
    eh,               \* one ErrorHandler.handle_error call: arguments, locals, result
    sp,               \* one StreamProcessor.process_chunks call: locals, callbacks, result
    lg,               \* one run of the generator of handle_streaming_response
    \* ---- the endpoint and the security middleware ----
    cc,               \* one chat_completions call: request fields, position, response
    rl,               \* RateLimiter: requests, last_cleanup, the clock, decisions made
    det               \* one StreamProcessor.detect_event_type call: element, result

lmVars == <<now, request_queue, active_requests, agent_clones, sem_value,
            sem_waiters, sem_woken, rid, item_agent, status, request_item,
            lm_pc, kind, result, work_raised>>

leaseVars == <<agent_locks, lock_locked, lock_waiters, lock_woken, ctx_pc,
               ctx_agent, ctx_temperature, ctx_max_tokens, original_config,
               lock_acquired, ctx_exc, n_retrieve, n_modify, modify_failed, call_raised>>

reqVars == <<req>>

compVars == <<eh, sp, lg, cc, rl, det>>

vars == <<lmVars, agent_cfg, leaseVars, reqVars, compVars>>

\* what the LoadManager, the lease manager and the handlers never touch
nonLM == <<agent_cfg, leaseVars, reqVars, compVars>>
nonLease == <<lmVars, reqVars, compVars>>
nonReq == <<lmVars, leaseVars, compVars>>
nonEh == <<lmVars, agent_cfg, leaseVars, reqVars, sp, lg, cc, rl, det>>
nonSp == <<lmVars, agent_cfg, leaseVars, reqVars, eh, lg, cc, rl, det>>
nonLg == <<lmVars, agent_cfg, leaseVars, reqVars, eh, sp, cc, rl, det>>
nonCc == <<lmVars, agent_cfg, leaseVars, reqVars, eh, sp, lg, rl, det>>
nonRl == <<lmVars, agent_cfg, leaseVars, reqVars, eh, sp, lg, cc, det>>
nonDet == <<lmVars, agent_cfg, leaseVars, reqVars, eh, sp, lg, cc, rl>>

(***************************************************************************)
(* Bounds of the model and parameters of LoadManager.                      *)
(***************************************************************************)
NumProcs == 3
MaxTime == 1
max_concurrent == 2
duplication_threshold == 2
max_clones_per_agent == 1

Procs == 1..NumProcs
Agents == {"agent-a", "agent-b"}
\* the session caller p addresses
AgentOf(p) == IF p % 2 = 1 THEN "agent-a" ELSE "agent-b"
Errors == {"ValueError", "RuntimeError"}

NoItem == 0
NoId == <<>>
UnknownId == <<"nonexistent-id">>

RequestId(t, n) == <<t, n>>

(***************************************************************************)
(* Helpers on sequences and dictionaries.                                  *)
(***************************************************************************)
RECURSIVE RemoveFirst(_, _)
RemoveFirst(s, x) ==
    IF s = <<>> THEN <<>>
    ELSE IF Head(s) = x THEN Tail(s)
    ELSE <<Head(s)>> \o RemoveFirst(Tail(s), x)

\* a table that keeps only the entry just put
DictPutAlone(d, k, v) == [j \in {k} |-> v]

DictDel(d, k) == [j \in (DOMAIN d) \ {k} |-> d[j]]
DictPut(d, k, v) == [j \in (DOMAIN d) \cup {k} |-> IF j = k THEN v ELSE d[j]]

InSeq(s, x) == \E i \in 1..Len(s) : s[i] = x

(***************************************************************************)
(* asyncio.Semaphore (CPython 3.11+): acquire takes a slot at once only    *)
(* when the value is positive and nobody is waiting; release adds one and  *)
(* hands the slot to the first waiter that has not been woken.             *)
(***************************************************************************)
SemLockedBug(value, waiters) == FALSE

SemLocked(value, waiters) == value = 0 \/ waiters # <<>>

\* a release that wakes nobody
WakeUpNobody(value, waiters, woken) == [value |-> value, woken |-> woken]

WakeUpNext(value, waiters, woken) ==
    LET cand == {i \in 1..Len(waiters) : waiters[i] \notin woken}
    IN IF cand = {} THEN [value |-> value, woken |-> woken]
       ELSE LET i == CHOOSE m \in cand : \A n \in cand : m <= n
            IN [value |-> value - 1, woken |-> woken \cup {waiters[i]}]

\* a release that is left out
SemReleaseForgotten(value, waiters, woken) == [value |-> value, woken |-> woken]

SemReleaseTwice(value, waiters, woken) == WakeUpNext(value + 2, waiters, woken)

SemRelease(value, waiters, woken) == WakeUpNext(value + 1, waiters, woken)

(***************************************************************************)
(* LoadManager._check_load_and_spawn_clones / _spawn_agent_clone.          *)
(***************************************************************************)
AgentLoad(active, agents, a) ==
    Cardinality({k \in DOMAIN active : agents[active[k]] = a})

CheckLoadAndSpawnClones(active, agents, clones, t) ==
    IF Cardinality(DOMAIN active) >= duplication_threshold
    THEN [a \in Agents |->
            IF AgentLoad(active, agents, a) >= duplication_threshold \div 2
            THEN Append(clones[a], <<a, "clone", t \div 1000>>)
            ELSE clones[a]]
    ELSE clones

(***************************************************************************)
(* The search of process_request / generate_stream: the first RequestItem  *)
(* of request_queue whose request_id equals the id looked for.             *)
(***************************************************************************)
FindRequest(queue, ids, id) ==
    LET hits == {i \in 1..Len(queue) : ids[queue[i]] = id}
    IN IF hits = {} THEN NoItem
       ELSE queue[CHOOSE m \in hits : \A n \in hits : m <= n]


(***************************************************************************)
(* State of the semaphore as one value, so that the sections below can be  *)
(* composed inside one step.                                               *)
(***************************************************************************)
SemState == [value |-> sem_value, waiters |-> sem_waiters, woken |-> sem_woken]

SetSem(s) ==
    /\ sem_value' = s.value
    /\ sem_waiters' = s.waiters
    /\ sem_woken' = s.woken

Released(s) ==
    LET r == SemRelease(s.value, s.waiters, s.woken)
    IN [value |-> r.value, waiters |-> s.waiters, woken |-> r.woken]

\* the tail of Semaphore.acquire for a woken waiter p
Resumed(s, p) ==
    LET w == RemoveFirst(s.waiters, p)
        k == s.woken \ {p}
        r == IF s.value > 0 THEN WakeUpNext(s.value, w, k)
             ELSE [value |-> s.value, woken |-> k]
    IN [value |-> r.value, waiters |-> w, woken |-> r.woken]

(***************************************************************************)
(* What process_request hands to its caller.                               *)
(***************************************************************************)
SwallowError(e) == <<"return", "None">>

ReRaise(e) == <<"raise", e>>

(***************************************************************************)
(* process_request, lines 188-204: the section under request_lock that     *)
(* follows the acquire.  q, ids, st are the queue, the ids and the         *)
(* statuses as left by the code that ran earlier in the same step; s is    *)
(* the semaphore after the acquire.                                        *)
(***************************************************************************)
ProcessRequestAdmit(p, id, q, ids, st, s) ==
    LET it == FindRequest(q, ids, id)
    IN IF it = NoItem
       THEN /\ SetSem(Released(s))
            /\ request_queue' = q
            /\ status' = st
            /\ result' = [result EXCEPT ![p] = <<"return", "None">>]
            /\ lm_pc' = [lm_pc EXCEPT ![p] = "done"]
            /\ UNCHANGED <<active_requests, request_item>>
       ELSE /\ SetSem(s)
            /\ status' = [st EXCEPT ![it] = "processing"]
            /\ active_requests' = DictPut(active_requests, id, it)
            /\ request_queue' = RemoveFirst(q, it)
            /\ request_item' = [request_item EXCEPT ![p] = it]
            /\ lm_pc' = [lm_pc EXCEPT ![p] = "running"]
            /\ UNCHANGED result

(***************************************************************************)
(* generate_stream, main.py lines 476-487: the same section in the         *)
(* streaming path; a missing entry does not end the generator.             *)
(***************************************************************************)
StreamAdmit(p, id, q, ids, st, s) ==
    LET it == FindRequest(q, ids, id)
    IN /\ SetSem(s)
       /\ lm_pc' = [lm_pc EXCEPT ![p] = "running"]
       /\ UNCHANGED result
       /\ IF it = NoItem
          THEN /\ request_queue' = q
               /\ status' = st
               /\ UNCHANGED <<active_requests, request_item>>
          ELSE /\ status' = [st EXCEPT ![it] = "processing"]
               /\ active_requests' = DictPut(active_requests, id, it)
               /\ request_queue' = RemoveFirst(q, it)
               /\ request_item' = [request_item EXCEPT ![p] = it]

(***************************************************************************)
(* processing_semaphore.acquire() at the head of process_request and of    *)
(* generate_stream: admitted at once, or appended to the waiters.          *)
(***************************************************************************)
AcquireThen(p, id, q, ids, st, k) ==
    IF ~SemLocked(sem_value, sem_waiters)
    THEN LET s == [SemState EXCEPT !.value = sem_value - 1]
         IN IF k = "stream" THEN StreamAdmit(p, id, q, ids, st, s)
            ELSE ProcessRequestAdmit(p, id, q, ids, st, s)
    ELSE /\ sem_waiters' = Append(sem_waiters, p)
         /\ lm_pc' = [lm_pc EXCEPT ![p] = "sem_wait"]
         /\ request_queue' = q
         /\ status' = st
         /\ UNCHANGED <<sem_value, sem_woken, active_requests, request_item, result>>

\* callers are numbered in the order in which they arrive
Arrives(p) == lm_pc[p] = "idle" /\ \A q \in Procs : q < p => lm_pc[q] # "idle"

(***************************************************************************)
(* LoadManager.process_with_queue: queue_request, then process_request up  *)
(* to its first suspension.                                                *)
(***************************************************************************)
process_with_queue(p, a) ==
    /\ UNCHANGED nonLM
    /\ UNCHANGED work_raised
    /\ Arrives(p)
    /\ LET id == RequestId(now, Len(request_queue))
           ids == [rid EXCEPT ![p] = id]
           ag == [item_agent EXCEPT ![p] = a]
       IN /\ kind' = [kind EXCEPT ![p] = "buffered"]
          /\ rid' = ids
          /\ item_agent' = ag
          /\ agent_clones' = CheckLoadAndSpawnClones(active_requests, ag, agent_clones, now)
          /\ AcquireThen(p, id, Append(request_queue, p), ids,
                         [status EXCEPT ![p] = "pending"], "buffered")
    /\ UNCHANGED now

(***************************************************************************)
(* handle_streaming_response_with_queue: queue_request only; the generator *)
(* starts when the response is iterated.                                   *)
(***************************************************************************)
handle_streaming_response_with_queue(p, a) ==
    /\ UNCHANGED nonLM
    /\ UNCHANGED work_raised
    /\ Arrives(p)
    /\ LET ag == [item_agent EXCEPT ![p] = a]
       IN /\ item_agent' = ag
          /\ agent_clones' = CheckLoadAndSpawnClones(active_requests, ag, agent_clones, now)
    /\ kind' = [kind EXCEPT ![p] = "stream"]
    /\ rid' = [rid EXCEPT ![p] = RequestId(now, Len(request_queue))]
    /\ request_queue' = Append(request_queue, p)
    /\ status' = [status EXCEPT ![p] = "pending"]
    /\ lm_pc' = [lm_pc EXCEPT ![p] = "queued"]
    /\ UNCHANGED <<now, active_requests, sem_value, sem_waiters, sem_woken,
                   request_item, result>>

generate_stream_start(p) ==
    /\ UNCHANGED nonLM
    /\ UNCHANGED work_raised
    /\ lm_pc[p] = "queued"
    /\ AcquireThen(p, rid[p], request_queue, rid, status, "stream")
    /\ UNCHANGED <<now, agent_clones, rid, item_agent, kind>>

(***************************************************************************)
(* process_request called with an id that was never queued.                *)
(***************************************************************************)
process_request_unknown(p) ==
    /\ UNCHANGED nonLM
    /\ UNCHANGED work_raised
    /\ Arrives(p)
    /\ kind' = [kind EXCEPT ![p] = "raw"]
    /\ rid' = [rid EXCEPT ![p] = UnknownId]
    /\ AcquireThen(p, UnknownId, request_queue, [rid EXCEPT ![p] = UnknownId],
                   status, "raw")
    /\ UNCHANGED <<now, agent_clones, item_agent>>

(***************************************************************************)
(* A waiter woken by a release resumes inside acquire and runs on to the   *)
(* next suspension.                                                        *)
(***************************************************************************)
SemResume(p) ==
    /\ UNCHANGED nonLM
    /\ UNCHANGED work_raised
    /\ lm_pc[p] = "sem_wait"
    /\ p \in sem_woken
    /\ IF kind[p] = "stream"
       THEN StreamAdmit(p, rid[p], request_queue, rid, status, Resumed(SemState, p))
       ELSE ProcessRequestAdmit(p, rid[p], request_queue, rid, status,
                                Resumed(SemState, p))
    /\ UNCHANGED <<now, agent_clones, rid, item_agent, kind>>

(***************************************************************************)
(* process_request, lines 206-233: the processor returns or raises; the    *)
(* finally block removes the id from active_requests and releases.         *)
(***************************************************************************)
FinallyActive(active, id) ==
    IF id \in DOMAIN active THEN DictDel(active, id) ELSE active

ProcessorReturns(p) ==
    /\ UNCHANGED nonLM
    /\ UNCHANGED work_raised
    /\ lm_pc[p] = "running"
    /\ kind[p] = "buffered"
    /\ status' = [status EXCEPT ![request_item[p]] = "completed"]
    /\ active_requests' = FinallyActive(active_requests, rid[p])
    /\ SetSem(Released(SemState))
    /\ result' = [result EXCEPT ![p] = <<"return", "result">>]
    /\ lm_pc' = [lm_pc EXCEPT ![p] = "done"]
    /\ UNCHANGED <<now, request_queue, agent_clones, rid, item_agent, request_item, kind>>

ProcessorRaises(p, e) ==
    /\ UNCHANGED nonLM
    /\ work_raised' = [work_raised EXCEPT ![p] = e]
    /\ lm_pc[p] = "running"
    /\ kind[p] = "buffered"
    /\ status' = [status EXCEPT ![request_item[p]] = "failed"]
    /\ active_requests' = FinallyActive(active_requests, rid[p])
    /\ SetSem(Released(SemState))
    /\ result' = [result EXCEPT ![p] = ReRaise(e)]
    /\ lm_pc' = [lm_pc EXCEPT ![p] = "done"]
    /\ UNCHANGED <<now, request_queue, agent_clones, rid, item_agent, request_item, kind>>

(***************************************************************************)
(* generate_stream, main.py lines 496-503: the finally block of the        *)
(* streaming path once _generate_stream_chunks is exhausted.               *)
(***************************************************************************)
generate_stream_finally(p) ==
    /\ UNCHANGED nonLM
    /\ UNCHANGED work_raised
    /\ lm_pc[p] = "running"
    /\ kind[p] = "stream"
    /\ IF rid[p] \in DOMAIN active_requests
       THEN /\ status' = [status EXCEPT ![active_requests[rid[p]]] = "completed"]
            /\ active_requests' = DictDel(active_requests, rid[p])
       ELSE UNCHANGED <<status, active_requests>>
    /\ SetSem(Released(SemState))
    /\ result' = [result EXCEPT ![p] = <<"return", "stream">>]
    /\ lm_pc' = [lm_pc EXCEPT ![p] = "done"]
    /\ UNCHANGED <<now, request_queue, agent_clones, rid, item_agent, request_item, kind>>

\* the clock of time.time() advances
Tick ==
    /\ UNCHANGED nonLM
    /\ UNCHANGED work_raised
    /\ now < MaxTime
    /\ now' = now + 1
    /\ UNCHANGED <<request_queue, active_requests, agent_clones, sem_value,
                   sem_waiters, sem_woken, rid, item_agent, status, request_item,
                   lm_pc, kind, result>>


(***************************************************************************)
(* The upstream agent runtime: llm_config records.  Temperatures are in    *)
(* tenths (7 is 0.7); None stands for Python's None.                       *)
(***************************************************************************)
None == 0 - 1
NoConfig == [temperature |-> None, max_tokens |-> None]
DefaultConfig == [temperature |-> 7, max_tokens |-> 1000]
TemperatureChoices == {None, 9}
MaxTokensChoices == {None, 2000}

\* config_dict = current.model_dump(); the overrides that are not None are set
ApplyOverrides(cfg, t, m) ==
    [temperature |-> IF t # None THEN t ELSE cfg.temperature,
     max_tokens |-> IF m # None THEN m ELSE cfg.max_tokens]

(***************************************************************************)
(* AgentConfigManager: contexts entered through temporary_config.          *)
(* manager.lock guards only code without a suspension point, so it is free *)
(* at every step boundary and is not a variable.                           *)
(***************************************************************************)
NumCtx == 2
Ctxs == 1..NumCtx
NoLock == 0

\* __aenter__ line 60 / main.py line 215: is there anything to configure?
NoOverridesBug(t, m) == FALSE

NoOverrides(t, m) == t = None /\ m = None

\* asyncio.Lock.acquire succeeds at once when unlocked with no waiter
LockFreeBug(l) == TRUE

LockFree(l) == ~lock_locked[l] /\ lock_waiters[l] = <<>>

\* a release that completes no waiter's future
LockReleaseNoWake(l) ==
    /\ lock_locked' = [lock_locked EXCEPT ![l] = FALSE]
    /\ UNCHANGED <<lock_woken, lock_waiters>>

\* asyncio.Lock.release: unlock and complete the first waiter's future
LockRelease(l) ==
    /\ lock_locked' = [lock_locked EXCEPT ![l] = FALSE]
    /\ lock_woken' = IF lock_waiters[l] # <<>>
                     THEN [lock_woken EXCEPT ![l] = @ \cup {Head(lock_waiters[l])}]
                     ELSE lock_woken
    /\ UNCHANGED lock_waiters

\* what __aexit__ pushes back
RestoredConfigBug(c) == agent_cfg[ctx_agent[c]]

RestoredConfig(c) == original_config[c]

\* lines 66-68: the lock table is keyed by the agent id
GlobalKey(a) == "agent-a"

LockKey(a) == a

\* line 67: asyncio.Lock() is a new lock
NewLock(locks) == Cardinality(DOMAIN locks) + 1

CtxArrives(c) == ctx_pc[c] = "idle" /\ \A d \in Ctxs : d < c => ctx_pc[d] # "idle"

(***************************************************************************)
(* __aenter__, lines 58-72: the fast path, or get-or-create the agent's    *)
(* lock and acquire it; once acquired the retrieve call is issued.         *)
(***************************************************************************)
Enter(c, a, t, m) ==
    /\ CtxArrives(c)
    /\ ctx_agent' = [ctx_agent EXCEPT ![c] = a]
    /\ ctx_temperature' = [ctx_temperature EXCEPT ![c] = t]
    /\ ctx_max_tokens' = [ctx_max_tokens EXCEPT ![c] = m]
    /\ IF NoOverrides(t, m)
       THEN /\ ctx_pc' = [ctx_pc EXCEPT ![c] = "body"]
            /\ UNCHANGED <<agent_locks, lock_locked, lock_waiters, lock_woken,
                           lock_acquired, n_retrieve>>
       ELSE LET created == LockKey(a) \notin DOMAIN agent_locks
                l == IF created THEN NewLock(agent_locks) ELSE agent_locks[LockKey(a)]
            IN /\ agent_locks' = IF created THEN DictPut(agent_locks, LockKey(a), l)
                                 ELSE agent_locks
               /\ IF created \/ LockFree(l)
                  THEN /\ lock_locked' = [lock_locked EXCEPT ![l] = TRUE]
                       /\ lock_acquired' = [lock_acquired EXCEPT ![c] = TRUE]
                       /\ n_retrieve' = [n_retrieve EXCEPT ![c] = @ + 1]
                       /\ ctx_pc' = [ctx_pc EXCEPT ![c] = "retrieve"]
                       /\ UNCHANGED <<lock_waiters, lock_woken>>
                  ELSE /\ lock_waiters' = [lock_waiters EXCEPT ![l] = Append(@, c)]
                       /\ ctx_pc' = [ctx_pc EXCEPT ![c] = "lock_wait"]
                       /\ UNCHANGED <<lock_locked, lock_woken, lock_acquired, n_retrieve>>
    /\ UNCHANGED <<nonLease, agent_cfg, original_config, ctx_exc, n_modify, modify_failed, call_raised>>

\* a woken waiter leaves asyncio.Lock.acquire holding the lock (lines 71-76)
LockResume(c) ==
    /\ ctx_pc[c] = "lock_wait"
    /\ LET l == agent_locks[LockKey(ctx_agent[c])]
       IN /\ c \in lock_woken[l]
          /\ lock_waiters' = [lock_waiters EXCEPT ![l] = RemoveFirst(@, c)]
          /\ lock_woken' = [lock_woken EXCEPT ![l] = @ \ {c}]
          /\ lock_locked' = [lock_locked EXCEPT ![l] = TRUE]
    /\ lock_acquired' = [lock_acquired EXCEPT ![c] = TRUE]
    /\ n_retrieve' = [n_retrieve EXCEPT ![c] = @ + 1]
    /\ ctx_pc' = [ctx_pc EXCEPT ![c] = "retrieve"]
    /\ UNCHANGED <<nonLease, agent_cfg, agent_locks, ctx_agent, ctx_temperature,
                   ctx_max_tokens, original_config, ctx_exc, n_modify, modify_failed, call_raised>>

(***************************************************************************)
(* __aenter__, lines 76-104: agents.retrieve returns; without an           *)
(* llm_config the lock is released, otherwise the snapshot is kept and the *)
(* modify call with the overridden configuration is issued.                *)
(***************************************************************************)
RetrieveReturns(c) ==
    /\ ctx_pc[c] = "retrieve"
    /\ LET a == ctx_agent[c]
       IN IF agent_cfg[a] = NoConfig
          THEN /\ LockRelease(agent_locks[LockKey(a)])
               /\ lock_acquired' = [lock_acquired EXCEPT ![c] = FALSE]
               /\ ctx_pc' = [ctx_pc EXCEPT ![c] = "body"]
               /\ UNCHANGED <<original_config, n_modify>>
          ELSE /\ original_config' = [original_config EXCEPT ![c] = agent_cfg[a]]
               /\ n_modify' = [n_modify EXCEPT ![c] = @ + 1]
               /\ ctx_pc' = [ctx_pc EXCEPT ![c] = "modify"]
               /\ UNCHANGED <<lock_locked, lock_waiters, lock_woken, lock_acquired>>
    /\ UNCHANGED <<nonLease, agent_cfg, agent_locks, ctx_agent, ctx_temperature,
                   ctx_max_tokens, ctx_exc, n_retrieve, modify_failed, call_raised>>

\* __aenter__, lines 109-116: the handler of a raising retrieve or modify
KeepOriginal(cfg) == cfg

\* line 115: self.original_config = None
ForgetOriginal(cfg) == NoConfig

EnterFailed(c, call) ==
    /\ IF lock_acquired[c]
       THEN LockRelease(agent_locks[LockKey(ctx_agent[c])])
       ELSE UNCHANGED <<lock_locked, lock_waiters, lock_woken>>
    /\ lock_acquired' = [lock_acquired EXCEPT ![c] = FALSE]
    /\ original_config' = [original_config EXCEPT ![c] = ForgetOriginal(@)]
    /\ call_raised' = [call_raised EXCEPT ![c] = call]
    /\ ctx_pc' = [ctx_pc EXCEPT ![c] = "body"]

RetrieveRaises(c) ==
    /\ ctx_pc[c] = "retrieve"
    /\ EnterFailed(c, "retrieve")
    /\ UNCHANGED <<nonLease, agent_cfg, agent_locks, ctx_agent, ctx_temperature,
                   ctx_max_tokens, ctx_exc, n_retrieve, n_modify, modify_failed>>

\* agents.modify of __aenter__ returns: the agent now has the overrides
ModifyReturns(c) ==
    /\ ctx_pc[c] = "modify"
    /\ agent_cfg' = [agent_cfg EXCEPT ![ctx_agent[c]] =
                        ApplyOverrides(original_config[c], ctx_temperature[c],
                                       ctx_max_tokens[c])]
    /\ ctx_pc' = [ctx_pc EXCEPT ![c] = "body"]
    /\ UNCHANGED <<nonLease, agent_locks, lock_locked, lock_waiters, lock_woken,
                   ctx_agent, ctx_temperature, ctx_max_tokens, original_config,
                   lock_acquired, ctx_exc, n_retrieve, n_modify, modify_failed, call_raised>>

ModifyRaises(c) ==
    /\ ctx_pc[c] = "modify"
    /\ EnterFailed(c, "modify")
    /\ modify_failed' = [modify_failed EXCEPT ![ctx_agent[c]] = TRUE]
    /\ UNCHANGED <<nonLease, agent_cfg, agent_locks, ctx_agent, ctx_temperature,
                   ctx_max_tokens, ctx_exc, n_retrieve, n_modify>>

(***************************************************************************)
(* The body of the async-with block ends (e = "none": normally), and       *)
(* __aexit__ runs up to the restore call, lines 118-141.                   *)
(***************************************************************************)
BodyEnds(c, e) ==
    /\ ctx_pc[c] = "body"
    /\ ctx_exc' = [ctx_exc EXCEPT ![c] = e]
    /\ IF original_config[c] = NoConfig
       THEN /\ ctx_pc' = [ctx_pc EXCEPT ![c] = "done"]
            /\ UNCHANGED n_modify
       ELSE IF LockKey(ctx_agent[c]) \notin DOMAIN agent_locks
                 \/ ~lock_locked[agent_locks[LockKey(ctx_agent[c])]]
            THEN /\ ctx_pc' = [ctx_pc EXCEPT ![c] = "done"]
                 /\ UNCHANGED n_modify
            ELSE /\ ctx_pc' = [ctx_pc EXCEPT ![c] = "restore"]
                 /\ n_modify' = [n_modify EXCEPT ![c] = @ + 1]
    /\ UNCHANGED <<nonLease, agent_cfg, agent_locks, lock_locked, lock_waiters,
                   lock_woken, ctx_agent, ctx_temperature, ctx_max_tokens,
                   original_config, lock_acquired, n_retrieve, modify_failed, call_raised>>

\* __aexit__, lines 145-151: the finally block after the restore call
ExitFinally(c) ==
    /\ IF lock_locked[agent_locks[LockKey(ctx_agent[c])]]
       THEN LockRelease(agent_locks[LockKey(ctx_agent[c])])
       ELSE UNCHANGED <<lock_locked, lock_waiters, lock_woken>>
    /\ lock_acquired' = [lock_acquired EXCEPT ![c] = FALSE]
    /\ ctx_pc' = [ctx_pc EXCEPT ![c] = "done"]

RestoreReturns(c) ==
    /\ ctx_pc[c] = "restore"
    /\ agent_cfg' = [agent_cfg EXCEPT ![ctx_agent[c]] = RestoredConfig(c)]
    /\ ExitFinally(c)
    /\ UNCHANGED <<nonLease, agent_locks, ctx_agent, ctx_temperature, ctx_max_tokens,
                   original_config, ctx_exc, n_retrieve, n_modify, modify_failed, call_raised>>

\* __aexit__, lines 143-151: the restore call raised; the error is logged and
\* __aexit__ returns False, so only the body's exception (if any) goes on
RestoreErrorEscapes(body_exc, restore_exc) == restore_exc

AfterRestoreError(body_exc, restore_exc) == body_exc

RestoreRaises(c) ==
    /\ ctx_pc[c] = "restore"
    /\ ExitFinally(c)
    /\ modify_failed' = [modify_failed EXCEPT ![ctx_agent[c]] = TRUE]
    /\ call_raised' = [call_raised EXCEPT ![c] = "restore"]
    /\ ctx_exc' = [ctx_exc EXCEPT ![c] = AfterRestoreError(@, "ApiError")]
    /\ UNCHANGED <<nonLease, agent_cfg, agent_locks, ctx_agent, ctx_temperature,
                   ctx_max_tokens, original_config, n_retrieve, n_modify>>

LockIds == 1..Cardinality(Agents)

LeaseOff ==
    /\ agent_cfg = [a \in Agents |-> DefaultConfig]
    /\ agent_locks = <<>>
    /\ lock_locked = [l \in LockIds |-> FALSE]
    /\ lock_waiters = [l \in LockIds |-> <<>>]
    /\ lock_woken = [l \in LockIds |-> {}]
    /\ ctx_pc = [c \in Ctxs |-> "idle"]
    /\ ctx_agent = [c \in Ctxs |-> "none"]
    /\ ctx_temperature = [c \in Ctxs |-> None]
    /\ ctx_max_tokens = [c \in Ctxs |-> None]
    /\ original_config = [c \in Ctxs |-> NoConfig]
    /\ lock_acquired = [c \in Ctxs |-> FALSE]
    /\ ctx_exc = [c \in Ctxs |-> "none"]
    /\ n_retrieve = [c \in Ctxs |-> 0]
    /\ n_modify = [c \in Ctxs |-> 0]
    /\ modify_failed = [a \in Agents |-> FALSE]
    /\ call_raised = [c \in Ctxs |-> "none"]


(***************************************************************************)
(* Upstream stream elements as the handlers see them: the attributes the   *)
(* code tests with hasattr/getattr.  Text is a sequence of parts, so that  *)
(* concatenation is concatenation of sequences.                            *)
(***************************************************************************)
Absent == "<absent>"
NoChunk == [message_type |-> "<unbound>"]

Chunk(mt, ck, parts, sr, er, rs) ==
    [message_type |-> mt, content_kind |-> ck, parts |-> parts,
     stop_reason |-> sr, error |-> er, reasoning |-> rs]

ReqMessages == {"Context window full", "Internal error"}

Chunks ==
    {Chunk("assistant_message", "str", <<"Hello">>, Absent, Absent, Absent),
     Chunk("assistant_message", "list", <<" wor", "ld">>, Absent, Absent, Absent),
     Chunk("reasoning_message", Absent, <<>>, Absent, Absent, "secret"),
     Chunk("usage_statistics", Absent, <<>>, Absent, Absent, Absent),
     Chunk("stop_reason", Absent, <<>>, "end_turn", Absent, Absent),
     Chunk("stop_reason", Absent, <<>>, "error", Absent, Absent),
     Chunk("stop_reason", Absent, <<>>, "error", "Context window full", Absent)}
    \cup {Chunk("error", Absent, <<>>, Absent, m, Absent) : m \in ReqMessages}

\* getattr(chunk, 'error', 'Unknown error')
ErrorOf(ch) == IF ch.error = Absent THEN "Unknown error" ELSE ch.error

(***************************************************************************)
(* is_context_window_full_error of main.py, lines 1088-1112: lower-case    *)
(* the message and look for one of the indicators as a substring.          *)
(***************************************************************************)
Lower(msg) ==
    CASE msg = "Context window full" -> "context window full"
      [] msg = "Internal error" -> "internal error"
      [] msg = "Unknown error" -> "unknown error"
      [] msg = "TokenCounter.calculate_usage() got an unexpected keyword argument 'system_content'"
             -> "tokencounter.calculate_usage() got an unexpected keyword argument 'system_content'"
      [] msg = "Maximum context length is 8192 tokens"
             -> "maximum context length is 8192 tokens"
      [] OTHER -> msg

\* the indicator phrases that occur in a lower-case message
Substrings(low) ==
    CASE low = "context window full" -> {"context window full", "context window"}
      [] low = "maximum context length is 8192 tokens"
             -> {"maximum context length", "token"}
      [] OTHER -> {}

context_full_indicators ==
    {"context window full", "context window exceeded", "context length exceeded",
     "context overflow", "token limit exceeded", "context_window", "context is full"}

is_context_window_full_error(msg) ==
    Substrings(Lower(msg)) \cap context_full_indicators # {}

(***************************************************************************)
(* ResponseFormatter._extract_content on a stream element.                 *)
(***************************************************************************)
ExtractContent(ch) ==
    IF ch.message_type \in {"error", "stop_reason"} THEN <<>>
    ELSE IF ch.content_kind \in {"str", "list"} THEN ch.parts
    ELSE <<>>

(***************************************************************************)
(* The handlers of main.py.  All requests address the same session.        *)
(***************************************************************************)
MaxChunks == 2
max_retries == 2
retry_on_context_full == TRUE
\* two handler invocations: enough for one request and for a pair racing
Reqs == {1, 2}
ReqAgent == "agent-a"

SetReq(r, rec) == req' = [req EXCEPT ![r] = rec]

\* history: what the upstream runtime gave the handler, kept over all
\* attempts where two handlers are compared
Logged(R, event) == IF R.log THEN Append(R.inputs, event) ELSE R.inputs

ReqArrives(r) == req[r].pc = "idle" /\ \A q \in Reqs : q < r => req[q].pc # "idle"

\* the restore_agent_config calls an exit makes: none without a snapshot
Leave(R, out, n) ==
    LET k == IF R.original_config = NoConfig THEN 0 ELSE n
    IN [R EXCEPT !.outcome = out, !.restores_left = k,
                 !.pc = IF k = 0 THEN "done" ELSE "restore"]

\* the message prefix of the error a handler reports
ErrorPrefix(mode, site, ty) ==
    IF site = "event" THEN "Letta agent error: "
    ELSE IF mode = "stream" THEN "Stream iteration error: "
    ELSE IF ty = "ApiError" THEN "Letta API error: "
    ELSE "Failed to generate response: "

(***************************************************************************)
(* The non-retryable exit.  Buffered: restore, raise HTTPException; an     *)
(* HTTPException raised in the try body is caught by `except               *)
(* HTTPException` (restore, re-raise) and then by the outer `except        *)
(* Exception` (restore, re-raise); one raised in an except clause only by  *)
(* the outer one.  Streaming: error frame, [DONE], restore, return.        *)
(***************************************************************************)
ErrorExit(R, e) ==
    IF R.mode = "buffered"
    THEN Leave(R, <<"HTTPException", 500, ErrorPrefix(R.mode, e.site, e.type), e.msg>>,
               IF e.site = "event" THEN 3 ELSE 2)
    ELSE Leave([R EXCEPT !.frames = @ \o
                    << <<"error", ErrorPrefix(R.mode, e.site, e.type), e.msg>>,
                       <<"DONE">> >>],
               <<"stream", "error">>, 1)

\* lines 429-435 / 825-835: the exit after the attempt loop
AllRetriesFailed(R) ==
    IF R.mode = "buffered"
    THEN Leave(R, <<"HTTPException", 500, "Failed to generate response after retries", "">>, 2)
    ELSE IF R.original_config = NoConfig
    THEN [R EXCEPT !.frames = @ \o
              << <<"error", "Failed to generate stream after retries", "">>,
                 <<"DONE">> >>,
              !.outcome = <<"stream", "error">>, !.pc = "done"]
    ELSE [R EXCEPT !.restores_left = 1, !.pc = "restore_then_fail"]

\* the next iteration of `for attempt in range(max_retries)`
NextAttempt(R) ==
    IF R.attempt + 1 < max_retries
    THEN [R EXCEPT !.attempt = @ + 1, !.pc = "open"]
    ELSE AllRetriesFailed(R)

\* the retry test without its bound on the attempt index
RetryWhenever(R, msg) ==
    /\ is_context_window_full_error(msg)
    /\ retry_on_context_full

\* the retry test of lines 318 / 567 / 607 / 721 (and 381, 405)
RetryEligible(R, msg) ==
    /\ is_context_window_full_error(msg)
    /\ retry_on_context_full
    /\ R.attempt < max_retries - 1

\* a terminal error: summarize_agent_conversation is called, or the exit taken
HandleError(R, e) ==
    LET T == [R EXCEPT !.trace = Append(@, <<"terminal_error", R.attempt,
                                            is_context_window_full_error(e.msg),
                                            e.site>>)]
    IN IF RetryEligible(R, e.msg)
       THEN [T EXCEPT !.pc = "summarize", !.err = e,
                      !.trace = Append(@, <<"summarize">>)]
       ELSE ErrorExit(T, e)

NoErr == [site |-> "none", type |-> "none", msg |-> ""]

(***************************************************************************)
(* TokenCounter.calculate_usage(messages, response_content, model) of      *)
(* token_counter.py, line 58, has no parameter system_content: a call that *)
(* passes system_content=... raises TypeError before the body runs.  All   *)
(* three calls of main.py (lines 352, 698, 1000) pass it.                  *)
(***************************************************************************)
\* a signature that would accept the keyword the callers pass
CalculateUsageParamsWithSystem ==
    {"messages", "response_content", "model", "system_content"}

CalculateUsageParams == {"messages", "response_content", "model"}

calculate_usage(keywords) ==
    IF keywords \subseteq CalculateUsageParams THEN <<"usage">>
    ELSE <<"raise", "TypeError",
           "TokenCounter.calculate_usage() got an unexpected keyword argument 'system_content'">>

\* the call of lines 352, 698 and 1000
UsageCall == calculate_usage({"system_content"})

UsageError == [site |-> "exc", type |-> UsageCall[2], msg |-> UsageCall[3]]

\* lines 350-372: usage, the response, restore, return; an exception of the
\* usage call is caught by `except Exception` of line 403
SucceedBuffered(R) ==
    IF UsageCall[1] = "raise" THEN HandleError(R, UsageError)
    ELSE Leave(R, <<"response", R.content>>, 1)

\* lines 694-717: usage, the final frame, [DONE], restore, return; an
\* exception of the usage call is caught by `except Exception` of line 719
SucceedStream(R) ==
    IF UsageCall[1] = "raise" THEN HandleError(R, UsageError)
    ELSE Leave([R EXCEPT !.frames = @ \o << <<"final", R.response_id>>, <<"DONE">> >>],
               <<"stream", "stop">>, 1)

\* handle_non_streaming_response, line 350: after the element loop
PostLoop(R) ==
    IF R.content # <<>> \/ R.attempt = max_retries - 1
    THEN SucceedBuffered(R)
    ELSE NextAttempt(R)

(***************************************************************************)
(* Entry of a handler and configure_agent_for_request, lines 199-253.      *)
(***************************************************************************)
Configure(R, t, m) ==
    [R EXCEPT !.temperature = t, !.max_tokens = m,
              !.pc = IF NoOverrides(t, m) THEN "open" ELSE "cfg_retrieve"]

handle_non_streaming_response(r, t, m) ==
    /\ ReqArrives(r)
    /\ SetReq(r, Configure([req[r] EXCEPT !.mode = "buffered"], t, m))
    /\ UNCHANGED <<nonReq, agent_cfg>>

generate_stream_chunks(r, t, m) ==
    /\ ReqArrives(r)
    /\ SetReq(r, Configure([req[r] EXCEPT !.mode = "stream"], t, m))
    /\ UNCHANGED <<nonReq, agent_cfg>>

ConfigureRetrieveReturns(r) ==
    /\ req[r].pc = "cfg_retrieve"
    /\ LET cfg == agent_cfg[ReqAgent]
           R == [req[r] EXCEPT !.read = cfg]
       IN SetReq(r, IF cfg = NoConfig THEN [R EXCEPT !.pc = "open"]
                    ELSE [R EXCEPT !.snapshot = cfg, !.pc = "cfg_modify"])
    /\ UNCHANGED <<nonReq, agent_cfg>>

ConfigureRetrieveRaises(r) ==
    /\ req[r].pc = "cfg_retrieve"
    /\ SetReq(r, [req[r] EXCEPT !.pc = "open"])
    /\ UNCHANGED <<nonReq, agent_cfg>>

ConfigureModifyReturns(r) ==
    /\ req[r].pc = "cfg_modify"
    /\ agent_cfg' = [agent_cfg EXCEPT ![ReqAgent] =
                        ApplyOverrides(req[r].snapshot, req[r].temperature,
                                       req[r].max_tokens)]
    /\ SetReq(r, [req[r] EXCEPT !.original_config = req[r].snapshot, !.pc = "open"])
    /\ UNCHANGED nonReq

ConfigureModifyRaises(r) ==
    /\ req[r].pc = "cfg_modify"
    /\ SetReq(r, [req[r] EXCEPT !.pc = "open"])
    /\ UNCHANGED <<nonReq, agent_cfg>>

(***************************************************************************)
(* letta_client.agents.messages.create_stream, lines 301-308 / 535-543.    *)
(***************************************************************************)
OpenStream(r) ==
    /\ req[r].pc = "open"
    /\ SetReq(r, [req[r] EXCEPT !.pc = "iter",
                                !.chunks_left = req[r].budget,
                                !.content = <<>>,
                                !.seen = <<>>,
                                !.response_id = <<r, req[r].attempt>>,
                                !.trace = Append(@, <<"create_stream">>)])
    /\ UNCHANGED <<nonReq, agent_cfg>>

(***************************************************************************)
(* One element of the stream, lines 309-347 (buffered) and 546-668         *)
(* (streaming).                                                            *)
(***************************************************************************)
BufferedChunk(R, ch) ==
    IF ch.message_type = "error"
    THEN HandleError(R, [site |-> "event", type |-> "Exception", msg |-> ErrorOf(ch)])
    ELSE IF ch.message_type = "stop_reason"
    THEN PostLoop(R)
    ELSE [R EXCEPT !.content = @ \o ExtractContent(ch)]

StreamChunk(R, ch) ==
    IF ch.message_type = "error"
       \/ (ch.message_type = "stop_reason" /\ ch.stop_reason = "error")
    THEN HandleError(R, [site |-> "event", type |-> "Exception", msg |-> ErrorOf(ch)])
    ELSE IF ch.message_type = "stop_reason"
    THEN SucceedStream(R)
    ELSE IF ch.message_type = "assistant_message" /\ ch.parts # <<>>
    THEN [R EXCEPT !.content = @ \o ch.parts,
                   !.frames = Append(@, <<"content", R.response_id, ch.parts>>)]
    ELSE R

NextChunk(r, ch) ==
    /\ req[r].pc = "iter"
    /\ req[r].chunks_left > 0
    /\ LET R == [req[r] EXCEPT !.chunks_left = @ - 1, !.last_chunk = ch,
                               !.seen = Append(@, ch),
                               !.inputs = Logged(req[r], <<"chunk", ch>>)]
       IN SetReq(r, IF R.mode = "buffered" THEN BufferedChunk(R, ch)
                    ELSE StreamChunk(R, ch))
    /\ UNCHANGED <<nonReq, agent_cfg>>

(***************************************************************************)
(* The stream is exhausted without a stop element.  Streaming: the else    *)
(* clause of the `async for` (lines 669-688) extracts from the variable    *)
(* chunk once more; it is unbound when no element was ever seen.           *)
(***************************************************************************)
StreamEndsStream(R) ==
    IF R.last_chunk = NoChunk
    THEN ErrorExit(R, [site |-> "exc", type |-> "NameError",
                       msg |-> "name 'chunk' is not defined"])
    ELSE LET x == ExtractContent(R.last_chunk)
         IN SucceedStream(IF x # <<>>
                          THEN [R EXCEPT !.content = @ \o x,
                                         !.frames = Append(@, <<"content", R.response_id, x>>)]
                          ELSE R)

StreamEnds(r) ==
    /\ req[r].pc = "iter"
    /\ LET R == [req[r] EXCEPT !.inputs = Logged(req[r], <<"end">>)]
       IN SetReq(r, IF R.mode = "buffered" THEN PostLoop(R) ELSE StreamEndsStream(R))
    /\ UNCHANGED <<nonReq, agent_cfg>>

(***************************************************************************)
(* The caller stops consuming the streaming response while the generator   *)
(* is in its element loop: aclose() raises GeneratorExit at the yield, a    *)
(* cancellation raises CancelledError at the await.  Neither is an          *)
(* Exception, so no except clause of _generate_stream_chunks (lines 719,    *)
(* 755, 789, 836) runs, and the function has no finally block.              *)
(***************************************************************************)
aclose(r) ==
    /\ req[r].pc = "iter"
    /\ req[r].mode = "stream"
    /\ SetReq(r, [req[r] EXCEPT !.pc = "done", !.outcome = <<"stream", "closed">>])
    /\ UNCHANGED <<nonReq, agent_cfg>>

\* the iteration raises: lines 379-427 (buffered), 719-753 (streaming)
StreamRaises(r, ty, msg) ==
    /\ req[r].pc = "iter"
    /\ LET R == [req[r] EXCEPT !.inputs = Logged(req[r], <<"raise", ty, msg>>)]
       IN SetReq(r, HandleError(R, [site |-> "exc", type |-> ty, msg |-> msg]))
    /\ UNCHANGED <<nonReq, agent_cfg>>

(***************************************************************************)
(* summarize_agent_conversation returns, lines 1065-1086, and the handler  *)
(* goes on: break or continue on success, the error exit on failure.       *)
(***************************************************************************)
AfterSummarize(R) ==
    IF R.err.site = "exc" THEN NextAttempt(R)
    ELSE IF R.mode = "buffered" THEN PostLoop(R)
    ELSE AllRetriesFailed(R)

SummarizeReturns(r, ok) ==
    /\ req[r].pc = "summarize"
    /\ LET R == [req[r] EXCEPT !.trace = Append(@, <<"summarized", ok>>),
                               !.inputs = Logged(req[r], <<"summarize", ok>>)]
       IN SetReq(r, IF ok THEN AfterSummarize(R) ELSE ErrorExit(R, R.err))
    /\ UNCHANGED <<nonReq, agent_cfg>>

(***************************************************************************)
(* restore_agent_config, lines 255-275: one agents.modify call; a failure  *)
(* is logged.  After the last call of the exit the handler is left.        *)
(***************************************************************************)
AfterRestore(R, ok) ==
    LET S == [R EXCEPT !.restores_left = @ - 1,
                       !.trace = Append(@, <<"restore", ok>>)]
    IN IF S.restores_left > 0 THEN S
       ELSE IF R.pc = "restore_then_fail"
       THEN [S EXCEPT !.frames = @ \o
                << <<"error", "Failed to generate stream after retries", "">>,
                   <<"DONE">> >>,
                !.outcome = <<"stream", "error">>, !.pc = "done"]
       ELSE [S EXCEPT !.pc = "done"]

restore_agent_config(r, ok) ==
    /\ req[r].pc \in {"restore", "restore_then_fail"}
    /\ agent_cfg' = IF ok THEN [agent_cfg EXCEPT ![ReqAgent] = req[r].original_config]
                    ELSE agent_cfg
    /\ SetReq(r, AfterRestore(req[r], ok))
    /\ UNCHANGED nonReq

ReqFields(pc0, b) ==
    [pc |-> pc0, mode |-> "none", temperature |-> None, max_tokens |-> None,
     snapshot |-> NoConfig, original_config |-> NoConfig, read |-> NoConfig,
     attempt |-> 0, content |-> <<>>, last_chunk |-> NoChunk, chunks_left |-> 0,
     seen |-> <<>>, inputs |-> <<>>, log |-> TRUE, frames |-> <<>>, response_id |-> <<>>,
     err |-> NoErr,
     restores_left |-> 0,
     outcome |-> <<"none">>, trace |-> <<>>, budget |-> b]

ReqRecord(pc0, b) == [ReqFields(pc0, b) EXCEPT !.log = FALSE]

ReqOff == req = [r \in Reqs |-> ReqRecord("off", 0)]


(***************************************************************************)
(* ErrorHandler (src/librarian/error_handler.py).  An error is its class,  *)
(* str(error), and the text of its message / detail / body attribute.      *)
(***************************************************************************)
MaxAttempts == 3
EhMessages == {"Context window full", "Internal error",
               "Maximum context length is 8192 tokens"}
EhErrors ==
    [cls : {"HTTPException", "ApiError", "Exception"},
     text : EhMessages,
     attr : {Absent, "Context window full"}]

eh_context_full_indicators ==
    {"context window", "context_window", "context is full", "token limit exceeded",
     "maximum context length", "context_length_exceeded", "context_length",
     "max_tokens", "token count"}

\* lines 60-94: the lower-cased str(error) and attributes hold an indicator
eh_is_context_window_full_error(error) ==
    \/ Substrings(Lower(error.text)) \cap eh_context_full_indicators # {}
    \/ /\ error.attr # Absent
       /\ Substrings(Lower(error.attr)) \cap eh_context_full_indicators # {}

\* lines 96-115
classify_error(error) ==
    IF error.cls = "HTTPException" THEN "validation_error"
    ELSE IF error.cls = "ApiError"
    THEN IF eh_is_context_window_full_error(error) THEN "context_window_full"
         ELSE "api_error"
    ELSE IF eh_is_context_window_full_error(error) THEN "context_window_full"
    ELSE "server_error"

\* line 137: the attempts are used up
ExhaustedOffByOne(att, mr) == att > mr - 1

Exhausted(att, mr) == att >= mr - 1

\* line 141: isinstance(error, HTTPException)
NeverValidation(error) == FALSE

IsValidationError(error) == error.cls = "HTTPException"

\* lines 117-149
is_retryable_error(error, att, mr, flag) ==
    IF Exhausted(att, mr) THEN FALSE
    ELSE IF IsValidationError(error) THEN FALSE
    ELSE IF eh_is_context_window_full_error(error) THEN flag
    ELSE FALSE

\* lines 226-234: the message of the formatted error
ErrorMessage(error, error_type) ==
    <<(IF error_type = "context_window_full" THEN "Context window full: "
       ELSE IF error_type = "api_error" THEN "Letta API error: "
       ELSE "Server error: "),
      error.text>>

\* lines 209-253: frames of a streaming error, or an HTTPException
format_error_response(error, error_type, is_streaming) ==
    IF is_streaming
    THEN << <<"error", ErrorMessage(error, error_type)>>, <<"DONE">> >>
    ELSE <<"HTTPException", 500, ErrorMessage(error, error_type)>>

\* the error whose message the result of handle_error carries (line 199)
ReportsSummarizeError(error, summarize_error) == summarize_error

ReportedError(error, summarize_error) == error

NoResponse == <<"None">>
NoError == [cls |-> "none", text |-> "", attr |-> Absent]

\* lines 197-207: the result once should_retry is settled
EhFinish(E, retry) ==
    [E EXCEPT !.pc = "done",
              !.should_retry = retry,
              !.error_response =
                  IF retry THEN NoResponse
                  ELSE format_error_response(ReportedError(E.error, E.summarize_error),
                                             E.error_type, E.is_streaming)]

(***************************************************************************)
(* handle_error, lines 151-207: up to the call of summarize_func, or to    *)
(* the result when the function is not called.                             *)
(***************************************************************************)
handle_error(error, a, att, mr, flag, streaming, fn) ==
    /\ eh.pc = "idle"
    /\ LET E == [eh EXCEPT !.error = error, !.agent_id = a, !.attempt = att,
                           !.max_retries = mr, !.retry_on_context_full = flag,
                           !.is_streaming = streaming, !.summarize_func = fn,
                           !.error_type = classify_error(error),
                           !.retryable = is_retryable_error(error, att, mr, flag)]
       IN eh' = IF E.retryable /\ E.error_type = "context_window_full" /\ fn # "none"
                THEN [E EXCEPT !.pc = "summarize",
                               !.summarize_calls = Append(@, a)]
                ELSE EhFinish(E, E.retryable)
    /\ UNCHANGED nonEh

\* line 186: summarize_func returned
SummarizeFuncReturns(ok) ==
    /\ eh.pc = "summarize"
    /\ eh' = EhFinish([eh EXCEPT !.summarize_result = <<"return", ok>>], ok)
    /\ UNCHANGED nonEh

\* lines 193-195: summarize_func raised
SummarizeFuncRaises(text) ==
    /\ eh.pc = "summarize"
    /\ eh' = EhFinish([eh EXCEPT !.summarize_result = <<"raise", text>>,
                                 !.summarize_error =
                                     [cls |-> "Exception", text |-> text, attr |-> Absent]],
                      FALSE)
    /\ UNCHANGED nonEh

EhRecord(pc0) ==
    [pc |-> pc0, error |-> NoError, agent_id |-> "none", attempt |-> 0,
     max_retries |-> 0, retry_on_context_full |-> FALSE, is_streaming |-> FALSE,
     summarize_func |-> "none", error_type |-> "none", retryable |-> FALSE,
     summarize_calls |-> <<>>, summarize_result |-> <<"none">>,
     summarize_error |-> NoError, should_retry |-> FALSE,
     error_response |-> NoResponse]

EhOff == eh = EhRecord("off")


(***************************************************************************)
(* StreamProcessor (src/librarian/stream_processor.py).  Besides the typed *)
(* elements, the stream can carry elements without a message_type: one     *)
(* with a content attribute and one with a reasoning attribute only (no    *)
(* element here has a tool_call attribute).                                *)
(***************************************************************************)
UntypedChunks ==
    {Chunk(Absent, "str", <<"!">>, Absent, Absent, Absent),
     Chunk(Absent, Absent, <<>>, Absent, Absent, "secret")}

\* a message_type attribute whose value is not a str
NotAString == "<not a str>"

\* hasattr(chunk, 'tool_call'): the elements of Chunks have no such field
HasToolCall(ch) == "tool_call" \in DOMAIN ch /\ ch.tool_call # Absent

\* the rules for tool_call and for content taken in the other order
detect_event_type_content_first(ch) ==
    IF ch.message_type \notin {Absent, NotAString} THEN ch.message_type
    ELSE IF ch.content_kind # Absent THEN "assistant_message"
    ELSE IF HasToolCall(ch) THEN "tool_call_message"
    ELSE "None"

detect_event_type(ch) ==
    IF ch.message_type \notin {Absent, NotAString} THEN ch.message_type
    ELSE IF HasToolCall(ch) THEN "tool_call_message"
    ELSE IF ch.content_kind # Absent THEN "assistant_message"
    ELSE "None"

\* the elements detect_event_type is applied to on its own: every
\* combination of the three attributes it looks at
DetChunks ==
    [message_type : {Absent, NotAString, "assistant_message", "reasoning_message",
                     "tool_call_message", "stop_reason", "usage_statistics",
                     "error", "ping"},
     tool_call : {Absent, "call"},
     content_kind : {Absent, "str", "list"}]

DetRecord(pc0, ch) == [pc |-> pc0, chunk |-> ch, event_type |-> "none"]

DetOff == det = DetRecord("off", NoChunk)

\* event_type = self.detect_event_type(chunk)
Detect ==
    /\ det.pc = "idle"
    /\ det' = [det EXCEPT !.pc = "done", !.event_type = detect_event_type(det.chunk)]
    /\ UNCHANGED nonDet

extract_chunk_content_detailed(ch) ==
    IF detect_event_type(ch) = "assistant_message" /\ ch.content_kind \in {"str", "list"}
    THEN ch.parts
    ELSE ExtractContent(ch)

\* the dictionary with the on_chunk calls counted instead of the elements
SpReturnCountingCalls(S) ==
    [S EXCEPT !.pc = "done", !.result = <<"return", S.full_content, Len(S.on_chunk)>>]

\* leaving the loop: the dictionary process_chunks returns
SpReturn(S) ==
    [S EXCEPT !.pc = "done", !.result = <<"return", S.full_content, S.chunk_count>>]

\* one iteration of the loop of process_chunks; retry is what on_error returns
SpStep(S, ch, retry) ==
    LET et == detect_event_type(ch)
        S1 == [S EXCEPT !.chunk_count = @ + 1, !.seen = Append(@, ch),
                        !.chunks_left = @ - 1]
    IN IF et = "error" \/ (et = "stop_reason" /\ ch.stop_reason = "error")
       THEN LET S2 == [S1 EXCEPT !.on_error = Append(@, <<ErrorOf(ch), retry>>)]
            IN IF retry THEN SpReturn(S2) ELSE S2
       ELSE IF et = "stop_reason"
       THEN SpReturn([S1 EXCEPT !.on_stop = @ + 1])
       ELSE IF et = "reasoning_message" THEN S1
       ELSE LET content == IF et = "assistant_message"
                           THEN extract_chunk_content_detailed(ch)
                           ELSE ExtractContent(ch)
            IN IF content # <<>>
               THEN [S1 EXCEPT !.full_content = @ \o content,
                               !.on_chunk = Append(@, <<content, et>>)]
               ELSE S1

process_chunks ==
    /\ sp.pc = "idle"
    /\ sp' = [sp EXCEPT !.pc = "iter"]
    /\ UNCHANGED nonSp

SpNextChunk(ch, retry) ==
    /\ sp.pc = "iter"
    /\ sp.chunks_left > 0
    /\ sp' = SpStep(sp, ch, retry)
    /\ UNCHANGED nonSp

SpStreamEnds ==
    /\ sp.pc = "iter"
    /\ sp' = SpReturn(sp)
    /\ UNCHANGED nonSp

SpRecord(pc0, b) ==
    [pc |-> pc0, chunks_left |-> b, seen |-> <<>>, full_content |-> <<>>,
     chunk_count |-> 0, on_chunk |-> <<>>, on_error |-> <<>>, on_stop |-> 0,
     result |-> <<"none">>]

SpOff == sp = SpRecord("off", 0)

(***************************************************************************)
(* The generator of handle_streaming_response, main.py lines 861-1025.     *)
(* Its element type test also knows an element with a reasoning attribute  *)
(* only.                                                                   *)
(***************************************************************************)
LegacyEventType(ch) ==
    IF detect_event_type(ch) = "None" /\ ch.reasoning # Absent THEN "reasoning_message"
    ELSE detect_event_type(ch)

LgYield(L, fs) == [L EXCEPT !.frames = @ \o fs]

LgReturn(L, fs) == [LgYield(L, fs) EXCEPT !.pc = "done"]

\* lines 886-984: one iteration of the loop
LegacyChunk(L, ch) ==
    LET et == LegacyEventType(ch)
        L1 == [L EXCEPT !.seen = Append(@, ch), !.chunks_left = @ - 1]
    IN IF et = "error" \/ (et = "stop_reason" /\ ch.stop_reason = "error")
       THEN LgReturn(L1, << <<"error", "Letta agent error: ", ErrorOf(ch)>>, <<"DONE">> >>)
       ELSE IF et = "stop_reason" THEN [L1 EXCEPT !.pc = "final"]
       ELSE IF et = "reasoning_message" THEN L1
       ELSE LET content == IF et = "assistant_message" THEN ch.parts
                           ELSE ExtractContent(ch)
            IN IF content # <<>>
               THEN LgYield([L1 EXCEPT !.full_content = @ \o content],
                            << <<"content", content>> >>)
               ELSE L1

\* lines 999-1025: the final frame and [DONE]; an exception of the usage
\* call is caught by the outer `except Exception`, which sends an error
\* frame only
LegacyFinal(L) ==
    IF UsageCall[1] = "raise"
    THEN LgReturn(L, << <<"error", "Streaming error: ", UsageCall[3]>> >>)
    ELSE LgReturn(L, << <<"final">>, <<"DONE">> >>)

generate_stream ==
    /\ lg.pc = "idle"
    /\ lg' = [lg EXCEPT !.pc = "iter"]
    /\ UNCHANGED nonLg

LgNextChunk(ch) ==
    /\ lg.pc = "iter"
    /\ lg.chunks_left > 0
    /\ LET L == LegacyChunk(lg, ch)
       IN lg' = IF L.pc = "final" THEN LegacyFinal(L) ELSE L
    /\ UNCHANGED nonLg

LgStreamEnds ==
    /\ lg.pc = "iter"
    /\ lg' = LegacyFinal(lg)
    /\ UNCHANGED nonLg

\* lines 987-997: the iteration raises
LgStreamRaises(msg) ==
    /\ lg.pc = "iter"
    /\ lg' = LgReturn(lg, << <<"error", "Stream iteration error: ", msg>>, <<"DONE">> >>)
    /\ UNCHANGED nonLg

LgRecord(pc0, b) ==
    [pc |-> pc0, chunks_left |-> b, seen |-> <<>>, full_content |-> <<>>,
     frames |-> <<>>]

LgOff == lg = LgRecord("off", 0)

(***************************************************************************)
(* main.py: the endpoint chat_completions up to the point where it hands   *)
(* the request to the engine (process_with_queue or                        *)
(* handle_streaming_response_with_queue), and check_token_capacity.        *)
(* cc.calls lists, in order, what the call has reached outside itself:     *)
(* "context.retrieve", "sync_tools", and "engine" for the hand-over, after *)
(* which the queue entry, the slot, the lease and the upstream calls exist.*)
(***************************************************************************)
MaxWindow == 2

\* ModelRegistry.models: the configured model names
RegisteredModels == {"gpt-4.1"}
RequestModels == RegisteredModels \cup {"invalid-model"}

is_valid_model(model_name) == model_name \in RegisteredModels

\* context_window_size_max of the agent's model, as the upstream holds it
Windows == 1..MaxWindow
\* ChatCompletionRequest.max_tokens: Optional[int]
RequestMaxTokens == {None} \cup (1..(MaxWindow + 1))

\* the comparison of check_token_capacity, off by one
ExceedsWindowByTwo(requested_max_tokens, max_context_window) ==
    requested_max_tokens > max_context_window + 1

\* the comparison of check_token_capacity
ExceedsWindow(requested_max_tokens, max_context_window) ==
    requested_max_tokens > max_context_window

\* check_token_capacity when agents.context.retrieve returned: is_valid
check_token_capacity(requested_max_tokens, max_context_window) ==
    IF requested_max_tokens # None
       /\ ExceedsWindow(requested_max_tokens, max_context_window)
    THEN FALSE
    ELSE TRUE

NoHttp == <<0, "none", Absent>>
UnknownModel400 == <<400, "invalid_request_error", Absent>>
ContextLength400 == <<400, "invalid_request_error", "context_length_exceeded">>
Server500 == <<500, "server_error", Absent>>
Ok200 == <<200, "none", Absent>>

CcRecord(pc0) ==
    [pc |-> pc0, model |-> "none", max_tokens |-> None, stream |-> FALSE,
     tools |-> FALSE, window |-> 0, read |-> None, calls |-> <<>>,
     response |-> NoHttp]

CcOff == cc = CcRecord("off")

\* the hand-over at the end of chat_completions
Engage(C) == [C EXCEPT !.pc = "engine", !.calls = Append(C.calls, "engine")]

\* what follows a passed capacity check
AfterCapacity(C) ==
    IF C.tools THEN [C EXCEPT !.pc = "tools"] ELSE Engage(C)

chat_completions(m, mt, st, tl, w) ==
    /\ cc.pc = "idle"
    /\ LET C == [cc EXCEPT !.model = m, !.max_tokens = mt, !.stream = st,
                           !.tools = tl, !.window = w]
       IN cc' = IF ~is_valid_model(m)
                THEN [C EXCEPT !.pc = "done", !.response = UnknownModel400]
                ELSE [C EXCEPT !.pc = "capacity"]
    /\ UNCHANGED nonCc

\* agents.context.retrieve returns; has_max: the dump carries context_window_size_max
ContextRetrieveReturns(has_max) ==
    /\ cc.pc = "capacity"
    /\ LET max_context_window == IF has_max THEN cc.window ELSE 0
           C == [cc EXCEPT !.read = max_context_window,
                           !.calls = Append(cc.calls, "context.retrieve")]
       IN cc' = IF check_token_capacity(cc.max_tokens, max_context_window)
                THEN AfterCapacity(C)
                ELSE [C EXCEPT !.pc = "done", !.response = ContextLength400]
    /\ UNCHANGED nonCc

\* agents.context.retrieve raises: check_token_capacity answers (True, None, None)
ContextRetrieveRaises ==
    /\ cc.pc = "capacity"
    /\ cc' = AfterCapacity([cc EXCEPT !.calls = Append(cc.calls, "context.retrieve")])
    /\ UNCHANGED nonCc

\* tool_synchronizer.sync_tools returns (it catches its own exceptions)
SyncToolsReturns ==
    /\ cc.pc = "tools"
    /\ cc' = Engage([cc EXCEPT !.calls = Append(cc.calls, "sync_tools")])
    /\ UNCHANGED nonCc

\* the engine returns the response object
EngineReturns ==
    /\ cc.pc = "engine"
    /\ cc' = [cc EXCEPT !.pc = "done", !.response = Ok200]
    /\ UNCHANGED nonCc

\* the engine raises something that is not an HTTPException
EngineRaises ==
    /\ cc.pc = "engine"
    /\ cc' = [cc EXCEPT !.pc = "done", !.response = Server500]
    /\ UNCHANGED nonCc

(***************************************************************************)
(* security.py: RateLimiter.  time.time() is the integer rl.clock, which   *)
(* never goes back.  A key the defaultdict does not hold reads as the      *)
(* empty list, so rl.requests is total.  rl.allowed[ip] lists the times at *)
(* which is_allowed(ip) answered True, rl.last is the latest answer: the   *)
(* ip, is_allowed, retry_after, and the time of the call.                  *)
(***************************************************************************)
MaxClock == 4
max_requests == 2
window_seconds == 2
cleanup_interval == 3

Ips == {"10.0.0.1", "10.0.0.2"}

\* [req_time for req_time in requests if req_time > window_start]
InWindow(requests, window_start) ==
    SelectSeq(requests, LAMBDA req_time : req_time > window_start)

\* min(ip_requests)
MinOf(requests) ==
    CHOOSE x \in {requests[i] : i \in 1..Len(requests)} :
        \A i \in 1..Len(requests) : x <= requests[i]

\* RateLimiter._cleanup
cleanup(requests, current_time) ==
    [ip \in Ips |-> InWindow(requests[ip], current_time - window_seconds)]

\* the limit test of is_allowed, one request late
LimitExceededLate(ip_requests) == Len(ip_requests) > max_requests

\* len(ip_requests) >= self.max_requests
LimitExceeded(ip_requests) == Len(ip_requests) >= max_requests

NoAnswer == <<"none", FALSE, None, 0>>

RlRecord(pc0) ==
    [pc |-> pc0, clock |-> 0, last_cleanup |-> 0,
     requests |-> [ip \in Ips |-> <<>>], allowed |-> [ip \in Ips |-> <<>>],
     last |-> NoAnswer]

RlOff == rl = RlRecord("off")

\* time.time() moves on
ClockAdvances ==
    /\ rl.pc = "on"
    /\ rl.clock < MaxClock
    /\ rl' = [rl EXCEPT !.clock = rl.clock + 1]
    /\ UNCHANGED nonRl

\* RateLimiter.is_allowed(ip), the whole body under self.lock
is_allowed(ip) ==
    /\ rl.pc = "on"
    /\ LET current_time == rl.clock
           due == current_time - rl.last_cleanup > cleanup_interval
           cleaned == IF due THEN cleanup(rl.requests, current_time) ELSE rl.requests
           last_cleanup == IF due THEN current_time ELSE rl.last_cleanup
           ip_requests == InWindow(cleaned[ip], current_time - window_seconds)
       IN IF LimitExceeded(ip_requests)
          THEN rl' = [rl EXCEPT
                        !.requests = [cleaned EXCEPT ![ip] = ip_requests],
                        !.last_cleanup = last_cleanup,
                        !.last = <<ip, FALSE,
                                   IF ip_requests # <<>>
                                   THEN MinOf(ip_requests) + window_seconds
                                        - current_time + 1
                                   ELSE window_seconds,
                                   current_time>>]
          ELSE rl' = [rl EXCEPT
                        !.requests = [cleaned EXCEPT
                                        ![ip] = Append(ip_requests, current_time)],
                        !.last_cleanup = last_cleanup,
                        !.allowed = [rl.allowed EXCEPT
                                       ![ip] = Append(rl.allowed[ip], current_time)],
                        !.last = <<ip, TRUE, None, current_time>>]
    /\ UNCHANGED nonRl

CompOff == EhOff /\ SpOff /\ LgOff /\ CcOff /\ RlOff /\ DetOff

LMInit ==
    /\ now = 0
    /\ request_queue = <<>>
    /\ active_requests = <<>>
    /\ agent_clones = [a \in Agents |-> <<>>]
    /\ sem_value = max_concurrent
    /\ sem_waiters = <<>>
    /\ sem_woken = {}
    /\ rid = [p \in Procs |-> NoId]
    /\ item_agent = [p \in Procs |-> "none"]
    /\ status = [p \in Procs |-> "none"]
    /\ request_item = [p \in Procs |-> NoItem]
    /\ lm_pc = [p \in Procs |-> "idle"]
    /\ kind = [p \in Procs |-> "none"]
    /\ result = [p \in Procs |-> <<"pending">>]
    /\ work_raised = [p \in Procs |-> "none"]

LMNext ==
    \/ \E p \in Procs : process_with_queue(p, AgentOf(p))
    \/ \E p \in Procs : handle_streaming_response_with_queue(p, AgentOf(p))
    \/ \E p \in Procs : generate_stream_start(p)
    \/ \E p \in Procs : process_request_unknown(p)
    \/ \E p \in Procs : SemResume(p)
    \/ \E p \in Procs : ProcessorReturns(p)
    \/ \E p \in Procs, e \in Errors : ProcessorRaises(p, e)
    \/ \E p \in Procs : generate_stream_finally(p)
    \/ Tick

\* the LoadManager alone: no lease context and no handler is active
LMOnlyInit ==
    /\ LMInit
    /\ LeaseOff
    /\ CompOff
    /\ ReqOff

SpecLM == LMOnlyInit /\ [][LMNext]_vars

\* agent_clones of a LoadManager that has served earlier bursts of callers:
\* clones are appended and never removed, so each agent holds between none
\* and max_clones_per_agent clones spawned at time 0
EarlierClones(a) ==
    {[i \in 1..n |-> <<a, "clone", 0>>] : n \in 0..max_clones_per_agent}

\* a LoadManager at rest (nothing queued, nothing active, every slot free)
\* that new callers address
ClonesInit ==
    /\ now = 0
    /\ request_queue = <<>>
    /\ active_requests = <<>>
    /\ agent_clones \in {f \in [Agents -> UNION {EarlierClones(a) : a \in Agents}] :
                            \A a \in Agents : f[a] \in EarlierClones(a)}
    /\ sem_value = max_concurrent
    /\ sem_waiters = <<>>
    /\ sem_woken = {}
    /\ rid = [p \in Procs |-> NoId]
    /\ item_agent = [p \in Procs |-> "none"]
    /\ status = [p \in Procs |-> "none"]
    /\ request_item = [p \in Procs |-> NoItem]
    /\ lm_pc = [p \in Procs |-> "idle"]
    /\ kind = [p \in Procs |-> "none"]
    /\ result = [p \in Procs |-> <<"pending">>]
    /\ work_raised = [p \in Procs |-> "none"]
    /\ LeaseOff
    /\ CompOff
    /\ ReqOff

SpecClones == ClonesInit /\ [][LMNext]_vars

\* the event loop resumes a woken waiter and starts the generator of a
\* streaming response, and every admitted work returns or raises (a
\* streaming response is read to its end)
LMFairness ==
    \A p \in Procs :
        /\ WF_vars(SemResume(p))
        /\ WF_vars(generate_stream_start(p))
        /\ WF_vars(ProcessorReturns(p) \/ \E e \in Errors : ProcessorRaises(p, e))
        /\ WF_vars(generate_stream_finally(p))

\* a burst of submissions within one reading of the clock, where request
\* ids collide the most
LMLiveNext ==
    \/ \E p \in Procs : process_with_queue(p, AgentOf(p))
    \/ \E p \in Procs : handle_streaming_response_with_queue(p, AgentOf(p))
    \/ \E p \in Procs : generate_stream_start(p)
    \/ \E p \in Procs : SemResume(p)
    \/ \E p \in Procs : ProcessorReturns(p)
    \/ \E p \in Procs, e \in Errors : ProcessorRaises(p, e)
    \/ \E p \in Procs : generate_stream_finally(p)

SpecLMLive == LMOnlyInit /\ [][LMLiveNext]_vars /\ LMFairness


(***************************************************************************)
(* Claims about the Admission Controller.                                  *)
(***************************************************************************)
Running == {p \in Procs : lm_pc[p] = "running"}

ItemInQueue(it) == InSeq(request_queue, it)
ItemInActive(it) == \E k \in DOMAIN active_requests : active_requests[k] = it

\* every slot is either free or held by a caller between acquire and release
SlotAccounting ==
    sem_value + Cardinality(Running) + Cardinality(sem_woken) = max_concurrent

\* C1: at every instant active_requests has at most max_concurrent entries and
\* at most max_concurrent callers run between a semaphore acquire and its
\* release, for the buffered and the streaming path alike.
C1_AdmissionBound ==
    /\ Cardinality(DOMAIN active_requests) <= max_concurrent
    /\ Cardinality(Running) <= max_concurrent

\* max_concurrent callers are running and a further one waits for a slot
C1_Witness ==
    /\ Cardinality(Running) = max_concurrent
    /\ \E p \in Procs : lm_pc[p] = "sem_wait"

\* C6: when process_request has returned or raised, the entry of that request
\* id is neither in active_requests nor in request_queue and its slot is free.
C6_SlotReleased ==
    \A p \in Procs :
        (kind[p] = "buffered" /\ lm_pc[p] = "done") =>
            /\ ~ItemInQueue(p) /\ ~ItemInActive(p)
            /\ ~ItemInQueue(request_item[p]) /\ ~ItemInActive(request_item[p])
            /\ SlotAccounting

\* C7: an entry appended to request_queue later is never moved into
\* active_requests while an entry appended earlier is still pending in
\* request_queue (callers are numbered in their order of arrival).
C7_FifoAdmission ==
    \A a \in Procs, b \in Procs :
        (a < b /\ kind[a] # "raw" /\ ItemInQueue(a)) =>
            status[b] \in {"none", "pending"}

\* C8: every queue_request call returns an id different from the id of every
\* earlier call.
C8_UniqueIds ==
    \A p \in Procs, q \in Procs :
        (p # q /\ kind[p] \in {"buffered", "stream"} /\ kind[q] \in {"buffered", "stream"})
            => rid[p] # rid[q]

LeaseInit ==
    /\ LMInit
    /\ ReqOff
    /\ CompOff
    /\ agent_cfg \in [Agents -> {DefaultConfig, NoConfig}]
    /\ agent_locks = <<>>
    /\ lock_locked = [l \in LockIds |-> FALSE]
    /\ lock_waiters = [l \in LockIds |-> <<>>]
    /\ lock_woken = [l \in LockIds |-> {}]
    /\ ctx_pc = [c \in Ctxs |-> "idle"]
    /\ ctx_agent = [c \in Ctxs |-> "none"]
    /\ ctx_temperature = [c \in Ctxs |-> None]
    /\ ctx_max_tokens = [c \in Ctxs |-> None]
    /\ original_config = [c \in Ctxs |-> NoConfig]
    /\ lock_acquired = [c \in Ctxs |-> FALSE]
    /\ ctx_exc = [c \in Ctxs |-> "none"]
    /\ n_retrieve = [c \in Ctxs |-> 0]
    /\ n_modify = [c \in Ctxs |-> 0]
    /\ modify_failed = [a \in Agents |-> FALSE]
    /\ call_raised = [c \in Ctxs |-> "none"]

LeaseNext ==
    \/ \E c \in Ctxs, a \in Agents, t \in TemperatureChoices, m \in MaxTokensChoices :
            Enter(c, a, t, m)
    \/ \E c \in Ctxs : LockResume(c)
    \/ \E c \in Ctxs : RetrieveReturns(c)
    \/ \E c \in Ctxs : RetrieveRaises(c)
    \/ \E c \in Ctxs : ModifyReturns(c)
    \/ \E c \in Ctxs : ModifyRaises(c)
    \/ \E c \in Ctxs, e \in {"none", "ValueError"} : BodyEnds(c, e)
    \/ \E c \in Ctxs : RestoreReturns(c)
    \/ \E c \in Ctxs : RestoreRaises(c)

SpecLease == LeaseInit /\ [][LeaseNext]_vars

\* what context c does once it has entered: every step is the event loop
\* resuming it, an upstream call answering, or the body ending
CtxStep(c) ==
    \/ LockResume(c)
    \/ RetrieveReturns(c)
    \/ RetrieveRaises(c)
    \/ ModifyReturns(c)
    \/ ModifyRaises(c)
    \/ \E e \in {"none", "ValueError"} : BodyEnds(c, e)
    \/ RestoreReturns(c)
    \/ RestoreRaises(c)

\* all contexts address one agent, whose configuration is readable or not
LeaseLiveInit == LeaseInit /\ agent_cfg["agent-b"] = DefaultConfig

LeaseLiveNext ==
    \/ \E c \in Ctxs, t \in TemperatureChoices, m \in MaxTokensChoices :
            Enter(c, "agent-a", t, m)
    \/ \E c \in Ctxs : CtxStep(c)

SpecLeaseLive ==
    LeaseLiveInit /\ [][LeaseLiveNext]_vars /\ \A c \in Ctxs : WF_vars(CtxStep(c))


(***************************************************************************)
(* Claims about the Session Configuration Lease Manager.                   *)
(***************************************************************************)
\* context c is between taking the agent's lock and giving it back
HoldsLease(c) ==
    \/ ctx_pc[c] \in {"retrieve", "modify", "restore"}
    \/ ctx_pc[c] = "body" /\ original_config[c] # NoConfig

LeaseOpenOn(a) == \E c \in Ctxs : ctx_agent[c] = a /\ HoldsLease(c)

\* C2: two contexts with overrides on the same agent are never open at the
\* same instant, and a context reads the current configuration only when no
\* other lease is open on the agent: it then sees the configuration as it
\* was before any override (provided no modify call failed).
C2_LeaseMutualExclusion ==
    /\ \A c \in Ctxs, d \in Ctxs :
           (c # d /\ ctx_agent[c] = ctx_agent[d] /\ HoldsLease(c)) => ~HoldsLease(d)
    /\ \A c \in Ctxs :
           (ctx_pc[c] = "retrieve" /\ ~modify_failed[ctx_agent[c]]) =>
               agent_cfg[ctx_agent[c]] \in {DefaultConfig, NoConfig}

\* one context is inside its modified window, another waits for the same agent
C2_Witness ==
    \E c \in Ctxs, d \in Ctxs :
        /\ c # d
        /\ ctx_agent[c] = ctx_agent[d]
        /\ ctx_pc[c] = "body" /\ original_config[c] # NoConfig
        /\ agent_cfg[ctx_agent[c]] # DefaultConfig
        /\ ctx_pc[d] = "lock_wait"

\* C4: once a context that applied an override has left its block, normally
\* or by an exception of the body, and no modify call failed, the agent's
\* configuration equals in every field the configuration read at entry
\* (as long as no later lease is open on the agent).
C4_LeaseRestoration ==
    \A c \in Ctxs :
        (/\ ctx_pc[c] = "done"
         /\ n_modify[c] > 0
         /\ ~modify_failed[ctx_agent[c]]
         /\ ~LeaseOpenOn(ctx_agent[c])) =>
            /\ n_modify[c] = 2
            /\ agent_cfg[ctx_agent[c]] = original_config[c]
            /\ original_config[c] = DefaultConfig

\* a block whose body raised has been left and the override is gone
C4_Witness ==
    \E c \in Ctxs :
        /\ ctx_pc[c] = "done"
        /\ ctx_exc[c] = "ValueError"
        /\ ctx_temperature[c] = 9
        /\ n_modify[c] = 2
        /\ ~modify_failed[ctx_agent[c]]
        /\ agent_cfg[ctx_agent[c]] = DefaultConfig

\* C10: a context entered with neither temperature nor max_tokens makes no
\* retrieve and no modify call, never takes or waits for a lock, and adds
\* nothing to agent_locks: every entry of the table belongs to an agent some
\* context with overrides addressed.
C10_NoOpLease ==
    /\ \A c \in Ctxs :
           (ctx_pc[c] # "idle" /\ ctx_temperature[c] = None /\ ctx_max_tokens[c] = None) =>
               /\ n_retrieve[c] = 0 /\ n_modify[c] = 0
               /\ ~lock_acquired[c]
               /\ ctx_pc[c] \in {"body", "done"}
               /\ \A l \in LockIds : ~InSeq(lock_waiters[l], c)
    /\ \A a \in DOMAIN agent_locks :
           \E d \in Ctxs : /\ ctx_agent[d] = a
                           /\ (ctx_temperature[d] # None \/ ctx_max_tokens[d] # None)

\* a context without overrides has completed its cycle; the table is empty
C10_Witness ==
    \E c \in Ctxs :
        /\ ctx_pc[c] = "done"
        /\ ctx_temperature[c] = None /\ ctx_max_tokens[c] = None
        /\ agent_locks = <<>>

\* the agent's lock is not held on behalf of context c
NotHeldBy(c) ==
    /\ ~lock_acquired[c]
    /\ \A l \in LockIds : ~InSeq(lock_waiters[l], c) /\ c \notin lock_woken[l]
    /\ ctx_agent[c] \in DOMAIN agent_locks =>
          (lock_locked[agent_locks[ctx_agent[c]]] =>
              \E d \in Ctxs : d # c /\ ctx_agent[d] = ctx_agent[c] /\ lock_acquired[d])

\* C11: when the restore modify call of __aexit__ raised, no exception other
\* than the body's own leaves the temporary_config block, and the per-agent
\* lock is no longer held by that context, so a later lease can take it.
C11_RestoreFailureContained ==
    \A c \in Ctxs :
        call_raised[c] = "restore" =>
            /\ ctx_pc[c] = "done"
            /\ ctx_exc[c] \in {"none", "ValueError"}
            /\ NotHeldBy(c)

\* after a failed restore another context holds the lease on the same agent
C11_Witness ==
    \E c \in Ctxs, d \in Ctxs :
        /\ c # d
        /\ ctx_agent[c] = ctx_agent[d]
        /\ call_raised[c] = "restore"
        /\ ctx_exc[c] = "none"
        /\ lock_acquired[d]
        /\ ctx_pc[d] \in {"modify", "body"}

\* the entry of context c with overrides ended without an applied override
FailedOpen(c) ==
    /\ ctx_pc[c] \in {"body", "done"}
    /\ ctx_temperature[c] # None \/ ctx_max_tokens[c] # None
    /\ \/ call_raised[c] \in {"retrieve", "modify"}
       \/ n_retrieve[c] = 1 /\ n_modify[c] = 0

\* C12: when the agent has no readable configuration, or the retrieve call or
\* the override modify call raised, __aenter__ has returned into the body,
\* the per-agent lock is not held by the context while the body runs, and
\* the exit makes no restore call (the only modify call there can be is the
\* failed override).
C12_FailOpenAcquire ==
    \A c \in Ctxs :
        FailedOpen(c) =>
            /\ NotHeldBy(c)
            /\ n_modify[c] = (IF call_raised[c] = "modify" THEN 1 ELSE 0)
            /\ ctx_pc[c] = "done" => ctx_exc[c] \in {"none", "ValueError"}

\* a context whose override modify raised has left its block while another
\* context holds the lease on the same agent
C12_Witness ==
    \E c \in Ctxs, d \in Ctxs :
        /\ c # d
        /\ ctx_agent[c] = ctx_agent[d]
        /\ call_raised[c] = "modify"
        /\ ctx_pc[c] = "done"
        /\ lock_acquired[d] /\ ctx_pc[d] = "body"

\* C13: a context that waits for a lock waits for a context on the same
\* agent; an open lease on another agent never makes it wait.
C13_SessionIndependence ==
    \A c \in Ctxs :
        (ctx_pc[c] = "lock_wait" /\ \A l \in LockIds : c \notin lock_woken[l]) =>
            \E d \in Ctxs :
                /\ d # c
                /\ ctx_agent[d] = ctx_agent[c]
                /\ \/ lock_acquired[d]
                   \/ \E l \in LockIds : d \in lock_woken[l]

\* leases on two different agents are open at the same instant
C13_Witness ==
    \E c \in Ctxs, d \in Ctxs :
        /\ ctx_agent[c] = "agent-a" /\ ctx_agent[d] = "agent-b"
        /\ ctx_pc[c] = "body" /\ original_config[c] # NoConfig
        /\ ctx_pc[d] \in {"modify", "body"} /\ lock_acquired[d]


(***************************************************************************)
(* Specifications of the request handlers: one request with full streams   *)
(* (SpecReq), and two concurrent requests on one session whose streams     *)
(* are one element long and do not fail (SpecRace).                        *)
(***************************************************************************)
ReqNext ==
    \/ \E r \in Reqs, t \in TemperatureChoices, m \in MaxTokensChoices :
            handle_non_streaming_response(r, t, m)
    \/ \E r \in Reqs, t \in TemperatureChoices, m \in MaxTokensChoices :
            generate_stream_chunks(r, t, m)
    \/ \E r \in Reqs : ConfigureRetrieveReturns(r)
    \/ \E r \in Reqs : ConfigureRetrieveRaises(r)
    \/ \E r \in Reqs : ConfigureModifyReturns(r)
    \/ \E r \in Reqs : ConfigureModifyRaises(r)
    \/ \E r \in Reqs : OpenStream(r)
    \/ \E r \in Reqs, ch \in Chunks : NextChunk(r, ch)
    \/ \E r \in Reqs : StreamEnds(r)
    \/ \E r \in Reqs, ty \in {"ApiError", "Exception"}, msg \in ReqMessages :
            StreamRaises(r, ty, msg)
    \/ \E r \in Reqs, ok \in BOOLEAN : SummarizeReturns(r, ok)
    \/ \E r \in Reqs, ok \in BOOLEAN : restore_agent_config(r, ok)
    \/ \E r \in Reqs : aclose(r)

ReqInit ==
    /\ LMInit
    /\ LeaseOff
    /\ CompOff
    /\ req = [r \in Reqs |-> IF r = 1 THEN ReqRecord("idle", MaxChunks)
                             ELSE ReqRecord("off", 0)]

RaceInit ==
    /\ LMInit
    /\ LeaseOff
    /\ CompOff
    /\ req = [r \in Reqs |-> ReqRecord("idle", 1)]

SpecReq == ReqInit /\ [][ReqNext]_vars

\* the event loop runs a handler that can take a step, and the upstream
\* runtime answers every call and ends every stream
SpecReqLive == ReqInit /\ [][ReqNext]_vars /\ WF_vars(ReqNext)

RaceChunks == {ch \in Chunks : \/ ch.content_kind = "str"
                                \/ ch.stop_reason = "end_turn"}

RaceNext ==
    \/ \E r \in Reqs, t \in TemperatureChoices, m \in MaxTokensChoices :
            handle_non_streaming_response(r, t, m)
    \/ \E r \in Reqs, t \in TemperatureChoices, m \in MaxTokensChoices :
            generate_stream_chunks(r, t, m)
    \/ \E r \in Reqs : ConfigureRetrieveReturns(r)
    \/ \E r \in Reqs : ConfigureRetrieveRaises(r)
    \/ \E r \in Reqs : ConfigureModifyReturns(r)
    \/ \E r \in Reqs : ConfigureModifyRaises(r)
    \/ \E r \in Reqs : OpenStream(r)
    \/ \E r \in Reqs, ch \in RaceChunks : NextChunk(r, ch)
    \/ \E r \in Reqs : StreamEnds(r)
    \/ \E r \in Reqs, ok \in BOOLEAN : restore_agent_config(r, ok)

SpecRace == RaceInit /\ [][RaceNext]_vars

(***************************************************************************)
(* The two delivery modes side by side: request 1 goes through the         *)
(* buffered handler and request 2 through the streaming generator, both    *)
(* without overrides, each over streams of at most one element.            *)
(***************************************************************************)
PairNext ==
    \/ handle_non_streaming_response(1, None, None)
    \/ generate_stream_chunks(2, None, None)
    \/ \E r \in Reqs : OpenStream(r)
    \/ \E r \in Reqs, ch \in Chunks : NextChunk(r, ch)
    \/ \E r \in Reqs : StreamEnds(r)
    \/ \E r \in Reqs, ty \in {"ApiError", "Exception"}, msg \in ReqMessages :
            StreamRaises(r, ty, msg)
    \/ \E r \in Reqs, ok \in BOOLEAN : SummarizeReturns(r, ok)

PairInit ==
    /\ LMInit
    /\ LeaseOff
    /\ CompOff
    /\ req = [r \in Reqs |-> ReqFields("idle", 1)]

SpecPair == PairInit /\ [][PairNext]_vars


(***************************************************************************)
(* Properties of the request handlers.                                     *)
(***************************************************************************)
\* how often the handler of a request did something, by its history
Count(R, tag) == Cardinality({i \in 1..Len(R.trace) : R.trace[i][1] = tag})

RestoreFailed(R) ==
    \E i \in 1..Len(R.trace) : R.trace[i][1] = "restore" /\ ~R.trace[i][2]

ContextFullAt(R, k) ==
    \E i \in 1..Len(R.trace) :
        /\ R.trace[i][1] = "terminal_error"
        /\ R.trace[i][2] = k
        /\ R.trace[i][3]

Summarized(R) ==
    \E i \in 1..Len(R.trace) : R.trace[i][1] = "summarized" /\ R.trace[i][2]

\* C3: two concurrent requests with overrides on one session: as long as no
\* restore call failed, the configuration a request reads in
\* configure_agent_for_request is the original one, never another request's
\* override, and when both requests are done the session has its original
\* configuration again.
C3_RequestLeaseExclusivity ==
    (\A q \in Reqs : ~RestoreFailed(req[q])) =>
        /\ \A r \in Reqs : req[r].read \in {NoConfig, DefaultConfig}
        /\ (\A r \in Reqs : req[r].pc = "done") => agent_cfg[ReqAgent] = DefaultConfig

\* C5: in both handlers, a context-window-full terminal error on attempt 0
\* whose compaction succeeded leads to exactly one compaction call and exactly
\* one retried upstream streaming call (two in all); a second
\* context-window-full error on attempt 1 ends the request with a formatted
\* error and no further compaction.
C5_RetryBound ==
    \A r \in Reqs :
        LET R == req[r]
        IN (R.pc = "done" /\ ContextFullAt(R, 0) /\ Summarized(R)) =>
              /\ Count(R, "summarize") = 1
              /\ Count(R, "create_stream") = 2
              /\ ContextFullAt(R, 1) =>
                    R.outcome[1] = "HTTPException" \/ R.outcome = <<"stream", "error">>


(***************************************************************************)
(* Specification of ErrorHandler.handle_error: one call with every         *)
(* combination of arguments.                                               *)
(***************************************************************************)
EhInit ==
    /\ LMInit
    /\ LeaseOff
    /\ ReqOff
    /\ SpOff
    /\ LgOff
    /\ CcOff
    /\ RlOff
    /\ DetOff
    /\ eh = EhRecord("idle")

EhNext ==
    \/ \E error \in EhErrors, a \in Agents, att \in 0..MaxAttempts,
          mr \in 1..MaxAttempts, flag \in BOOLEAN, streaming \in BOOLEAN,
          fn \in {"none", "summarize_agent_conversation"} :
            handle_error(error, a, att, mr, flag, streaming, fn)
    \/ \E ok \in BOOLEAN : SummarizeFuncReturns(ok)
    \/ SummarizeFuncRaises("Summarize failed: context window full")

SpecEH == EhInit /\ [][EhNext]_vars

\* handle_error has returned
EhDone == eh.pc = "done"

\* the compaction function was called for the given agent and returned success
CompactionSucceeded ==
    /\ eh.summarize_calls = <<eh.agent_id>>
    /\ eh.summarize_result = <<"return", TRUE>>

\* C14: handle_error returns should_retry = true only if the error is a
\* context-window-full error, retry_on_context_full is true, and during the
\* call the compaction function was invoked for the given agent and returned
\* success (there is no such call when no function is supplied).
C14_RetryOnlyAfterCompaction ==
    (EhDone /\ eh.should_retry) =>
        /\ eh_is_context_window_full_error(eh.error)
        /\ eh.retry_on_context_full
        /\ CompactionSucceeded

\* C15: when the compaction function was called and raised or returned
\* false, the result has should_retry = false and an error response built
\* from the message of the original error.
C15_CompactionFailureSurfacesOriginal ==
    (EhDone /\ eh.summarize_calls # <<>> /\ eh.summarize_result # <<"return", TRUE>>) =>
        /\ ~eh.should_retry
        /\ eh.error_response =
              (IF eh.is_streaming
               THEN << <<"error", ErrorMessage(eh.error, eh.error_type)>>, <<"DONE">> >>
               ELSE <<"HTTPException", 500, ErrorMessage(eh.error, eh.error_type)>>)

\* the compaction function raised on a streaming call
C15_Witness ==
    /\ EhDone
    /\ eh.is_streaming
    /\ eh.summarize_result[1] = "raise"
    /\ eh.error_response[1][2][2] = eh.error.text

\* C16: for an HTTPException, whatever its message, attempt index,
\* max_retries and retry flag, handle_error makes no compaction call and
\* returns should_retry = false with a formatted error.
C16_ValidationFastPath ==
    (eh.pc # "idle" /\ eh.error.cls = "HTTPException") =>
        /\ eh.summarize_calls = <<>>
        /\ EhDone
        /\ ~eh.should_retry
        /\ eh.error_response # NoResponse

\* an HTTPException with a context-window message on attempt 0 of 2, with
\* recovery enabled and a compaction function supplied
C16_Witness ==
    /\ EhDone
    /\ eh.error.cls = "HTTPException"
    /\ eh.error.text = "Context window full"
    /\ eh.attempt = 0 /\ eh.max_retries = 2
    /\ eh.retry_on_context_full
    /\ eh.summarize_func # "none"
    /\ eh.error_response = <<"HTTPException", 500, <<"Server error: ", "Context window full">> >>

\* C17: is_retryable_error is true exactly when attempt < max_retries - 1,
\* the error is no HTTPException, it matches the context-window vocabulary,
\* and retry_on_context_full is true.
C17_RetryEligibility ==
    eh.pc # "idle" =>
        (eh.retryable <=>
            /\ eh.attempt < eh.max_retries - 1
            /\ eh.error.cls # "HTTPException"
            /\ \/ Substrings(Lower(eh.error.text)) \cap eh_context_full_indicators # {}
               \/ /\ eh.error.attr # Absent
                  /\ Substrings(Lower(eh.error.attr)) \cap eh_context_full_indicators # {}
            /\ eh.retry_on_context_full)

\* a retryable call, and the last attempt of a call that is not
C17_Witness ==
    /\ eh.retryable
    /\ eh.attempt = 1 /\ eh.max_retries = 3
    /\ eh.error.text = "Maximum context length is 8192 tokens"


(***************************************************************************)
(* Specifications of StreamProcessor.process_chunks and of the generator   *)
(* of handle_streaming_response: one run over every stream.                *)
(***************************************************************************)
SpInit ==
    /\ LMInit
    /\ LeaseOff
    /\ ReqOff
    /\ EhOff
    /\ LgOff
    /\ CcOff
    /\ RlOff
    /\ DetOff
    /\ sp = SpRecord("idle", MaxChunks + 1)

SpNext ==
    \/ process_chunks
    \/ \E ch \in Chunks \cup UntypedChunks, retry \in BOOLEAN :
            /\ retry => (detect_event_type(ch) = "error" \/ ch.stop_reason = "error")
            /\ SpNextChunk(ch, retry)
    \/ SpStreamEnds

SpecSP == SpInit /\ [][SpNext]_vars

LgInit ==
    /\ LMInit
    /\ LeaseOff
    /\ ReqOff
    /\ EhOff
    /\ SpOff
    /\ CcOff
    /\ RlOff
    /\ DetOff
    /\ lg = LgRecord("idle", MaxChunks)

LgNext ==
    \/ generate_stream
    \/ \E ch \in Chunks \cup UntypedChunks : LgNextChunk(ch)
    \/ LgStreamEnds
    \/ \E msg \in ReqMessages : LgStreamRaises(msg)

SpecLegacy == LgInit /\ [][LgNext]_vars

CcInit ==
    /\ LMInit
    /\ LeaseOff
    /\ ReqOff
    /\ EhOff
    /\ SpOff
    /\ LgOff
    /\ RlOff
    /\ DetOff
    /\ cc = CcRecord("idle")

CcNext ==
    \/ \E m \in RequestModels, mt \in RequestMaxTokens, st \in BOOLEAN,
          tl \in BOOLEAN, w \in Windows : chat_completions(m, mt, st, tl, w)
    \/ \E has_max \in BOOLEAN : ContextRetrieveReturns(has_max)
    \/ ContextRetrieveRaises
    \/ SyncToolsReturns
    \/ EngineReturns
    \/ EngineRaises

SpecCC == CcInit /\ [][CcNext]_vars

RlInit ==
    /\ LMInit
    /\ LeaseOff
    /\ ReqOff
    /\ EhOff
    /\ SpOff
    /\ LgOff
    /\ CcOff
    /\ DetOff
    /\ rl = RlRecord("on")

DetInit ==
    /\ LMInit
    /\ LeaseOff
    /\ ReqOff
    /\ EhOff
    /\ SpOff
    /\ LgOff
    /\ CcOff
    /\ RlOff
    /\ det \in {DetRecord("idle", ch) : ch \in DetChunks}

DetNext == Detect

SpecDet == DetInit /\ [][DetNext]_vars

RlNext ==
    \/ ClockAdvances
    \/ \E ip \in Ips : is_allowed(ip)

SpecRL == RlInit /\ [][RlNext]_vars


(***************************************************************************)
(* Properties of the stream handling.                                      *)
(***************************************************************************)
\* the text of the content events of a sequence of stream elements, in order
RECURSIVE ContentText(_)
ContentText(chunks) ==
    IF chunks = <<>> THEN <<>>
    ELSE (IF detect_event_type(Head(chunks)) = "assistant_message" THEN Head(chunks).parts
          ELSE <<>>) \o ContentText(Tail(chunks))

\* the text of the content frames sent under one response id, in order
RECURSIVE FrameText(_, _)
FrameText(fs, id) ==
    IF fs = <<>> THEN <<>>
    ELSE (IF Head(fs)[1] = "content" /\ Head(fs)[2] = id THEN Head(fs)[3] ELSE <<>>)
         \o FrameText(Tail(fs), id)

\* C18: in both handlers the accumulated content and the text of the
\* content frames sent under the current response id are exactly the
\* in-order concatenation of the text of the content events consumed in the
\* attempt: nothing of a reasoning event, nothing twice.
C18_StreamFiltering ==
    \A r \in Reqs :
        LET R == req[r]
        IN /\ R.content = ContentText(R.seen)
           /\ R.mode = "stream" => FrameText(R.frames, R.response_id) = ContentText(R.seen)

\* the last element the attempt consumed is a stop event with an error
StoppedWithError(R) ==
    /\ R.pc # "iter"
    /\ R.seen # <<>>
    /\ R.seen[Len(R.seen)].message_type = "stop_reason"
    /\ R.seen[Len(R.seen)].stop_reason = "error"

\* the error of a stream element was given to the retry/error path in the
\* current attempt
EventErrorHandled(R) ==
    \E i \in 1..Len(R.trace) :
        /\ R.trace[i][1] = "terminal_error"
        /\ R.trace[i][2] = R.attempt
        /\ R.trace[i][4] = "event"

\* C19: in both handlers a stop event whose stop reason is an error is
\* handled as a terminal error: the attempt it ends goes through the
\* retry/error path with the error of that event, and it is never left as
\* a normal stop.
C19_StopWithErrorIsError ==
    \A r \in Reqs : StoppedWithError(req[r]) => EventErrorHandled(req[r])

\* process_chunks: the accumulated content and the text given to on_chunk
\* are the text of the content events, in order, and nothing of a
\* reasoning event
RECURSIVE CallbackText(_)
CallbackText(calls) ==
    IF calls = <<>> THEN <<>> ELSE Head(calls)[1] \o CallbackText(Tail(calls))

SP_StreamFiltering ==
    /\ sp.full_content = ContentText(sp.seen)
    /\ CallbackText(sp.on_chunk) = ContentText(sp.seen)
    /\ \A i \in 1..Len(sp.full_content) : sp.full_content[i] # "secret"
    /\ sp.pc = "done" => sp.result = <<"return", ContentText(sp.seen), Len(sp.seen)>>

\* process_chunks: every stop event with an error goes to on_error, as every
\* error event does, and on_stop is called for the other stop events only
SP_StopWithError ==
    LET failed == {i \in 1..Len(sp.seen) :
                      \/ sp.seen[i].message_type = "error"
                      \/ sp.seen[i].stop_reason = "error"}
        stopped == {i \in 1..Len(sp.seen) :
                      /\ sp.seen[i].message_type = "stop_reason"
                      /\ sp.seen[i].stop_reason # "error"}
    IN /\ Len(sp.on_error) = Cardinality(failed)
       /\ sp.on_stop = Cardinality(stopped)

\* a frame sequence closes well: one [DONE] frame, at the end, and every
\* error frame directly before it
WellFormedClose(fs) ==
    /\ fs # <<>>
    /\ \A i \in 1..Len(fs) : fs[i] = <<"DONE">> <=> i = Len(fs)
    /\ \A i \in 1..Len(fs) : fs[i][1] = "error" => i + 1 = Len(fs)

\* C20: every frame sequence a streaming handler has sent to its end -- of
\* _generate_stream_chunks, of the generator of handle_streaming_response,
\* and the streaming error format of ErrorHandler -- has exactly one [DONE]
\* frame, as its last frame, and an error frame is directly followed by it.
C20_WellFormedClose ==
    /\ \A r \in Reqs :
           (req[r].mode = "stream" /\ req[r].pc = "done"
                /\ req[r].outcome # <<"stream", "closed">>) => WellFormedClose(req[r].frames)
    /\ lg.pc = "done" => WellFormedClose(lg.frames)
    /\ (eh.is_streaming /\ eh.error_response # NoResponse) =>
           WellFormedClose(eh.error_response)


(***************************************************************************)
(* Further properties of the Admission Controller.                         *)
(***************************************************************************)
\* the order of the statuses; completed and failed are both final
StatusRank(st) ==
    CASE st = "none" -> 0
      [] st = "pending" -> 1
      [] st = "processing" -> 2
      [] OTHER -> 3

\* the places of an entry agree with its status
EntryPlaces ==
    \A it \in Procs :
        /\ ItemInQueue(it) <=> status[it] = "pending"
        /\ ItemInActive(it) => status[it] = "processing"
        /\ ~(ItemInQueue(it) /\ ItemInActive(it))

\* one step of the life of every entry (an entry that is queued and
\* admitted without a suspension in between passes through pending inside
\* the step)
EntryStep ==
    \A it \in Procs :
        /\ status'[it] # status[it] => StatusRank(status'[it]) > StatusRank(status[it])
        /\ (status[it] # "processing" /\ status'[it] = "processing") <=>
               (~ItemInActive(it) /\ ItemInActive(it)')
        /\ (~ItemInQueue(it) /\ ItemInQueue(it)') => status[it] = "none"
        /\ (~ItemInActive(it) /\ ItemInActive(it)') => status[it] \in {"none", "pending"}

\* C25: the status of an entry only moves forward along pending ->
\* processing -> (completed | failed); an entry is pending exactly while it
\* is in request_queue, becomes processing at the moment it is moved into
\* active_requests, is never in both, and re-enters neither.
C25_EntryLifecycle == []EntryPlaces /\ [][EntryStep]_vars

\* callers that hold a slot: running, or woken with the slot already theirs
InFlight == {p \in Procs : lm_pc[p] \in {"sem_wait", "running"}}

\* C30: the free slots of processing_semaphore plus the callers between an
\* acquire and its release are max_concurrent at every instant; the free
\* count never exceeds max_concurrent, and equals it whenever no request is
\* in flight -- with the not-found path, colliding ids and the streaming path.
C30_SemaphoreConservation ==
    /\ sem_value + Cardinality(Running) + Cardinality(sem_woken) = max_concurrent
    /\ sem_value \in 0..max_concurrent
    /\ InFlight = {} => sem_value = max_concurrent

\* a not-found call and two requests with one id have all ended
C30_Witness ==
    \E p \in Procs, q \in Procs, u \in Procs :
        /\ p # q /\ rid[p] = rid[q] /\ kind[p] = "stream"
        /\ kind[u] = "raw"
        /\ lm_pc[p] = "done" /\ lm_pc[q] = "done" /\ lm_pc[u] = "done"
        /\ sem_value = max_concurrent


(***************************************************************************)
(* Further properties of the request handlers.                             *)
(***************************************************************************)
\* C21: when the caller stopped consuming a streaming response mid-stream,
\* the handler that had overridden the session's configuration has made
\* its restore call by the time the generator is finished.
C21_CleanupOnDisconnect ==
    \A r \in Reqs :
        (/\ req[r].pc = "done"
         /\ req[r].outcome = <<"stream", "closed">>
         /\ req[r].original_config # NoConfig) => Count(req[r], "restore") >= 1

IsPrefix(a, b) == Len(a) <= Len(b) /\ SubSeq(b, 1, Len(a)) = a

\* what the upstream runtime gave one handler is what it gave the other, as
\* far as both consumed it
SameInputs(A, B) == IsPrefix(A.inputs, B.inputs) \/ IsPrefix(B.inputs, A.inputs)

OutcomeKind(R) ==
    IF R.outcome[1] = "response" \/ R.outcome = <<"stream", "stop">> THEN "success"
    ELSE "error"

\* C22: a buffered and a streaming request that were given the same upstream
\* event sequences, raised errors and compaction results have made the same
\* number of upstream streaming calls and of compaction calls and have
\* ended with the same kind of outcome.
C22_ModesShareRetryLogic ==
    \A a \in Reqs, b \in Reqs :
        (/\ req[a].mode = "buffered" /\ req[b].mode = "stream"
         /\ req[a].pc = "done" /\ req[b].pc = "done"
         /\ SameInputs(req[a], req[b])) =>
            /\ Count(req[a], "create_stream") = Count(req[b], "create_stream")
            /\ Count(req[a], "summarize") = Count(req[b], "summarize")
            /\ OutcomeKind(req[a]) = OutcomeKind(req[b])

(***************************************************************************)
(* Properties of the endpoint's validation.                                *)
(***************************************************************************)
\* the request names no registered model, or asks for more tokens than the
\* maximum context window of the agent's model
InvalidRequest(C) ==
    \/ C.model \notin RegisteredModels
    \/ C.max_tokens # None /\ C.max_tokens > C.window

\* the same, measured against the window check_token_capacity read
RefusedRequest(C) ==
    \/ C.model \notin RegisteredModels
    \/ C.max_tokens # None /\ C.read # None /\ C.max_tokens > C.read

Rejected400(C) ==
    /\ C.pc = "done"
    /\ C.response[1] = 400
    /\ C.response[2] = "invalid_request_error"

\* C23: a request with an unknown model, or with max_tokens above the
\* maximum context window of the model, never reaches the engine (no queue
\* entry, slot, configuration change, upstream stream or compaction) and is
\* answered with HTTP 400 invalid_request_error.
C23_ValidationBeforeEngine ==
    (cc.pc \notin {"off", "idle"} /\ InvalidRequest(cc))
        => /\ ~InSeq(cc.calls, "engine")
           /\ cc.pc = "done" => Rejected400(cc)

\* C23 as the code has it: the request is refused when the model is unknown
\* or max_tokens is above the window that agents.context.retrieve returned;
\* it is then answered 400 invalid_request_error at once, before sync_tools
\* and before the engine; and no other request is answered 400.
C23_ValidationOfWhatWasRead ==
    cc.pc \notin {"off", "idle"}
        => /\ RefusedRequest(cc)
                => /\ Rejected400(cc)
                   /\ ~InSeq(cc.calls, "engine")
                   /\ ~InSeq(cc.calls, "sync_tools")
           /\ (cc.pc = "done" /\ cc.response[1] = 400) => RefusedRequest(cc)

C23_Witness ==
    /\ cc.pc = "done"
    /\ cc.response = ContextLength400
    /\ cc.read # None
    /\ cc.max_tokens > cc.read
    /\ cc.calls = <<"context.retrieve">>

(***************************************************************************)
(* Properties of the rate limiter.                                         *)
(***************************************************************************)
\* how many of the times in q lie in (lo, hi]
CountIn(q, lo, hi) == Len(SelectSeq(q, LAMBDA x : x > lo /\ x <= hi))

\* C24: for every IP and every time t, at most max_requests requests of that
\* IP were allowed with a timestamp in (t - window_seconds, t], whatever the
\* other IPs did; and an IP is refused only while max_requests of its own
\* allowed requests lie within the window, so that it is allowed again once
\* the window has passed since the oldest of them.
C24_RateLimitBound ==
    /\ \A ip \in Ips : \A t \in 0..MaxClock :
           CountIn(rl.allowed[ip], t - window_seconds, t) <= max_requests
    /\ \A ip \in Ips :
           (rl.last[1] = ip /\ ~rl.last[2])
               => CountIn(rl.allowed[ip], rl.last[4] - window_seconds, rl.last[4])
                      = max_requests

\* an IP refused again after its first window had expired and it had been
\* allowed anew, while the other IP has been served as well
C24_Witness ==
    /\ rl.last[1] = "10.0.0.1"
    /\ ~rl.last[2]
    /\ Len(rl.allowed["10.0.0.1"]) > max_requests
    /\ rl.allowed["10.0.0.2"] # <<>>

(***************************************************************************)
(* Properties of the attempt loop.                                         *)
(***************************************************************************)
TerminalFrames(fs) == Cardinality({i \in 1..Len(fs) : fs[i][1] \in {"final", "error"}})

\* the one outcome of a finished handler: a success response, or one error
OneOutcome(R) ==
    IF R.mode = "buffered"
    THEN \/ R.outcome[1] = "response"
         \/ R.outcome[1] = "HTTPException" /\ R.outcome[2] = 500
    ELSE /\ R.outcome \in {<<"stream", "stop">>, <<"stream", "error">>}
         /\ TerminalFrames(R.frames) = 1
         /\ R.outcome = <<"stream", "stop">>
                <=> \E i \in 1..Len(R.frames) : R.frames[i][1] = "final"

AttemptsBounded ==
    \A r \in Reqs :
        /\ Count(req[r], "create_stream") <= max_retries
        /\ Count(req[r], "summarize") <= max_retries - 1
        /\ (req[r].pc = "done" /\ req[r].outcome # <<"stream", "closed">>)
               => OneOutcome(req[r])

\* C26: a request whose caller reads the response to its end makes at most
\* max_retries (2) upstream streaming calls and at most one compaction call,
\* ends with exactly one outcome (a success response, or one formatted
\* error, the exhaustion error included), and does end when the upstream
\* event sequences are finite.
C26_BoundedAttempts ==
    /\ []AttemptsBounded
    /\ <>(\A r \in Reqs : req[r].pc \in {"off", "done"})

\* a handler that opened two streams, compacted once and ended with an error
C26_Witness ==
    \E r \in Reqs :
        /\ req[r].pc = "done"
        /\ Count(req[r], "create_stream") = max_retries
        /\ Count(req[r], "summarize") = 1
        /\ req[r].outcome # <<"stream", "closed">>
        /\ OneOutcome(req[r])

\* the handler of r takes a normal stop event from the stream
NormalStopStep(r) ==
    /\ req[r].pc = "iter"
    /\ req'[r].chunks_left = req[r].chunks_left - 1
    /\ req'[r].last_chunk.message_type = "stop_reason"
    /\ req'[r].last_chunk.stop_reason # "error"

\* the handler has finalized successfully with the given content
FinalizedWith(R, content) ==
    /\ R.pc \in {"restore", "done"}
    /\ \/ R.mode = "buffered" /\ R.outcome = <<"response", content>>
       \/ R.mode = "stream" /\ R.outcome = <<"stream", "stop">> /\ R.content = content

\* C27: when a handler takes a normal stop event, whatever content it has
\* accumulated (empty or not) and whatever the attempt index, it finalizes
\* successfully with that content: it opens no further upstream stream and
\* calls no compaction.
C27_NormalStopFinalizes ==
    [][\A r \in Reqs : NormalStopStep(r) => FinalizedWith(req'[r], req[r].content)]_vars

(***************************************************************************)
(* Properties of StreamProcessor.process_chunks after an error.            *)
(***************************************************************************)
SpTerminalError(ch) ==
    \/ detect_event_type(ch) = "error"
    \/ detect_event_type(ch) = "stop_reason" /\ ch.stop_reason = "error"

\* C28: once a terminal error event has been handed to on_error and
\* on_error has returned false, process_chunks consumes no later element of
\* the stream: the last element it has taken is that error event, and so
\* nothing after it is added to the content or passed to on_chunk or on_stop.
C28_StopAfterNonRetryableError ==
    (\E k \in 1..Len(sp.on_error) : ~sp.on_error[k][2])
        => /\ sp.seen # <<>>
           /\ SpTerminalError(sp.seen[Len(sp.seen)])
           /\ ~sp.on_error[Len(sp.on_error)][2]
           /\ \A k \in 1..(Len(sp.on_error) - 1) : sp.on_error[k][2]

(***************************************************************************)
(* Properties of the buffered handler's result.                            *)
(***************************************************************************)
\* an error event, or a stop event with error
TerminalErrorEvent(ch) ==
    \/ ch.message_type = "error"
    \/ ch.message_type = "stop_reason" /\ ch.stop_reason = "error"

ErrorObserved(R) == \E i \in 1..Len(R.seen) : TerminalErrorEvent(R.seen[i])

EntryAdmitted(p) == status[p] \in {"processing", "completed", "failed"}

\* the work callable of caller p was invoked and has returned or raised
WorkRan(p) ==
    /\ lm_pc[p] = "done"
    /\ result[p] \in {<<"return", "result">>} \cup {<<"raise", e>> : e \in Errors}

\* C31: every entry submitted through process_with_queue is eventually
\* admitted and the work submitted with it is run, also when more callers
\* than max_concurrent submit at once, provided every admitted work
\* eventually returns or raises.
C31_AdmissionLiveness ==
    \A p \in Procs :
        (kind[p] = "buffered") ~> (EntryAdmitted(p) /\ WorkRan(p))

\* a caller that had to wait for a slot and whose work has run
C31_Witness ==
    \E p \in Procs :
        /\ kind[p] = "buffered"
        /\ WorkRan(p)
        /\ EntryAdmitted(p)
        /\ \A q \in Procs \ {p} : lm_pc[q] = "done"
        /\ Cardinality(Procs) > max_concurrent

(***************************************************************************)
(* Liveness of the lease.                                                  *)
(***************************************************************************)
WithOverrides(c) ==
    /\ ctx_pc[c] # "idle"
    /\ ctx_temperature[c] # None \/ ctx_max_tokens[c] # None

\* C32: concurrent temporary_config contexts with overrides, on the same
\* agent or not, all eventually enter and exit, each having made its own
\* override push and its own restore push (2 modify calls), provided every
\* body and every upstream call terminates.
C32_NoLeaseDeadlock ==
    \A c \in Ctxs :
        WithOverrides(c) ~> (ctx_pc[c] = "done" /\ n_modify[c] = 2)

\* the modify calls of a context that has left its block: two when its entry
\* read a configuration and pushed the override, one when the override push
\* raised, none when the retrieve raised or returned no configuration
ModifyCallsDue(c) ==
    IF original_config[c] # NoConfig THEN 2
    ELSE IF call_raised[c] = "modify" THEN 1
    ELSE 0

\* C32 as the code has it: every context eventually leaves its block, and
\* it has then made the two modify calls when its entry succeeded, and
\* fewer when the entry failed open.
C32_AllContextsExit ==
    /\ \A c \in Ctxs : (ctx_pc[c] # "idle") ~> (ctx_pc[c] = "done")
    /\ [](\A c \in Ctxs :
            (ctx_pc[c] = "done" /\ WithOverrides(c))
                => n_modify[c] = ModifyCallsDue(c))

\* all contexts addressed one agent with overrides and each has made its
\* override push and its restore push
C32_Witness ==
    /\ \A c \in Ctxs :
          /\ ctx_pc[c] = "done"
          /\ WithOverrides(c)
          /\ ctx_agent[c] = "agent-a"
          /\ n_modify[c] = 2
    /\ Cardinality(Ctxs) > 1

(***************************************************************************)
(* The lock table.                                                         *)
(***************************************************************************)
\* C33: an entry of AgentConfigManager.agent_locks is never removed and
\* never replaced by another lock, so every later acquire and release for
\* the agent uses the same lock.
C33_StableLockTable ==
    [][\A a \in DOMAIN agent_locks :
          /\ a \in DOMAIN agent_locks'
          /\ agent_locks'[a] = agent_locks[a]]_vars

\* a context has taken and given back the lock that an earlier context on
\* the same agent had created
C33_Witness ==
    /\ agent_locks # <<>>
    /\ \E c \in Ctxs, d \in Ctxs :
          /\ c < d
          /\ ctx_agent[c] \in DOMAIN agent_locks
          /\ ctx_agent[c] = ctx_agent[d]
          /\ ctx_pc[c] = "done" /\ n_modify[c] = 2
          /\ ctx_pc[d] = "done" /\ n_modify[d] = 2

(***************************************************************************)
(* process_request with an id that is not queued.                          *)
(***************************************************************************)
\* slots no running caller holds: the free ones and those handed to waiters
\* that have been woken
SlotsNotRunning == sem_value + Cardinality(sem_woken)

\* the step in which the call of caller p with the unknown id returns
UnknownReturns(p) ==
    /\ kind'[p] = "raw"
    /\ lm_pc[p] # "done"
    /\ lm_pc'[p] = "done"

\* the work of a call with an unknown id is never invoked
UnknownNeverRuns ==
    \A p \in Procs :
        kind[p] = "raw" =>
            /\ lm_pc[p] \in {"sem_wait", "done"}
            /\ work_raised[p] = "none"
            /\ lm_pc[p] = "done" => result[p] = <<"return", "None">>

\* C34: process_request with an id that is not in request_queue returns
\* None without invoking the work, leaves request_queue, active_requests
\* and every entry's status as they were, and gives back the slot it took:
\* the free slots are what they were before the call.
C34_UnknownIdNoOp ==
    /\ []UnknownNeverRuns
    /\ [][\A p \in Procs :
            UnknownReturns(p) =>
                /\ result'[p] = <<"return", "None">>
                /\ request_queue' = request_queue
                /\ active_requests' = active_requests
                /\ status' = status
                /\ SlotsNotRunning' = SlotsNotRunning
                /\ lm_pc[p] = "idle" =>
                      /\ sem_value' = sem_value
                      /\ sem_waiters' = sem_waiters
                      /\ sem_woken' = sem_woken]_vars

\* a call with an unknown id has returned None while an entry is queued and
\* another is being processed
C34_Witness ==
    \E p \in Procs :
        /\ kind[p] = "raw"
        /\ lm_pc[p] = "done"
        /\ result[p] = <<"return", "None">>
        /\ request_queue # <<>>
        /\ active_requests # <<>>

(***************************************************************************)
(* StreamProcessor.detect_event_type.                                      *)
(***************************************************************************)
TypeIsString(ch) == ch.message_type \notin {Absent, NotAString}

\* C35: detect_event_type returns the element's message_type when the
\* field is present and a string; otherwise 'tool_call_message' when a
\* tool_call field is present; otherwise 'assistant_message' when a content
\* field is present; otherwise None.  An earlier rule wins over a later one.
C35_ClassificationOrder ==
    det.pc = "done" =>
        LET ch == det.chunk
        IN /\ TypeIsString(ch) => det.event_type = ch.message_type
           /\ (~TypeIsString(ch) /\ ch.tool_call # Absent)
                 => det.event_type = "tool_call_message"
           /\ (~TypeIsString(ch) /\ ch.tool_call = Absent /\ ch.content_kind # Absent)
                 => det.event_type = "assistant_message"
           /\ (~TypeIsString(ch) /\ ch.tool_call = Absent /\ ch.content_kind = Absent)
                 => det.event_type = "None"

\* an element whose message_type is not a string and that has both a
\* tool_call and a content field
C35_Witness ==
    /\ det.pc = "done"
    /\ det.chunk.message_type = NotAString
    /\ det.chunk.tool_call # Absent
    /\ det.chunk.content_kind # Absent
    /\ det.event_type = "tool_call_message"

(***************************************************************************)
(* LoadManager.agent_clones.                                               *)
(***************************************************************************)
\* C36: after any sequence of queue_request calls and admissions, every
\* agent has at most max_clones_per_agent clones recorded in agent_clones.
C36_CloneCap ==
    \A a \in Agents : Len(agent_clones[a]) <= max_clones_per_agent

(***************************************************************************)
(* RateLimiter.is_allowed: the retry_after of a denial.                    *)
(***************************************************************************)
\* C37: whenever is_allowed denies a request, the returned retry_after
\* satisfies 0 < retry_after <= window_seconds, for every history of request
\* timestamps, a denial at the timestamp of the oldest request in the window
\* included.
C37_RetryAfterRange ==
    (rl.last[1] \in Ips /\ ~rl.last[2]) =>
        (0 < rl.last[3] /\ rl.last[3] <= window_seconds)

(***************************************************************************)
(* The response id of the frames of _generate_stream_chunks.               *)
(***************************************************************************)
IdFrames(frames) ==
    {i \in 1..Len(frames) : frames[i][1] \in {"content", "final"}}

\* C38: all content frames and the final frame emitted within one streaming
\* response carry the same response id, also when an attempt is abandoned
\* after content was sent and the upstream call is retried.
C38_OneResponseId ==
    \A r \in Reqs :
        req[r].mode = "stream" =>
            \A i, j \in IdFrames(req[r].frames) :
                req[r].frames[i][2] = req[r].frames[j][2]

(***************************************************************************)
(* The restore calls of one request.                                       *)
(***************************************************************************)
\* C39: a request that applied an override pushes restore_agent_config
\* exactly once, on every exit path of handle_non_streaming_response and
\* _generate_stream_chunks (success, formatted error, raised exception), and
\* makes no configuration write after it.
C39_SingleRestore ==
    \A r \in Reqs :
        (/\ req[r].pc = "done"
         /\ req[r].original_config # NoConfig
         /\ req[r].outcome # <<"stream", "closed">>)
            => /\ Count(req[r], "restore") = 1
               /\ req[r].trace[Len(req[r].trace)][1] = "restore"

(***************************************************************************)
(* StreamProcessor.process_chunks: what it returns and what it calls.      *)
(***************************************************************************)
ReturnedAccounts ==
    /\ sp.result[1] = "return" =>
          /\ sp.result[2] = CallbackText(sp.on_chunk)
          /\ sp.result[3] = Len(sp.seen)
    /\ sp.on_stop <= 1

\* C40: for every event sequence the 'content' returned is the in-order
\* concatenation of the content arguments of the on_chunk calls of that call,
\* 'chunk_count' is the number of stream elements consumed, and on_stop is
\* called at most once, with no on_chunk call after it.
C40_ContentAccounting ==
    /\ []ReturnedAccounts
    /\ [][sp.on_stop >= 1 => sp'.on_chunk = sp.on_chunk]_vars

\* two content elements, then a normal stop: three elements, two calls
C40_Witness ==
    /\ sp.pc = "done"
    /\ sp.on_stop = 1
    /\ Len(sp.on_chunk) = 2
    /\ sp.result[3] = 3
    /\ sp.result[2] = sp.on_chunk[1][1] \o sp.on_chunk[2][1]

====
